---- MODULE Spec2Model ----
(***************************************************************************)
(* Model of the bubble-reactivity propagation engine: the Computation      *)
(* node (core.ts), the owner tree (owner.ts), the effect queue (effect.ts) *)
(* and the facade (index.ts).  The engine is single threaded: every        *)
(* top-level call runs to completion, so a top-level call is one action;   *)
(* runEffects is split at the iterations of its loop.                      *)
(***************************************************************************)
EXTENDS Integers, Sequences, FiniteSets, TLC

\* ---------------------------------------------------------------- bounds
MaxNodes == 9        \* nodes that can ever be allocated (cells and owners)
MaxVal == 1          \* leaf values range over 0..MaxVal
MaxFutures == 2      \* the promises a program has at hand
MaxQueue == 3        \* entries of the effect queue beyond which no Autorun is invalidated

\* ------------------------------------------------------ program constants
STATE_CLEAN == 0
STATE_CHECK == 1
STATE_DIRTY == 2
STATE_DISPOSED == 3
NULL == 0
TestError == -1      \* payload thrown by a user compute
DisposedError == -2  \* "Tried to read a disposed computation"
BadVal == 1          \* the source value on which a throwing compute throws
Undefined == -3      \* the initial value of a cell made without one
NotReadyError == -4  \* thrown by wait() on a loading cell
SecondError == -5    \* thrown by an error handler in place of the error it got

\* A promise as a value: promise p is the value PromiseBase + p
PromiseBase == 10

Nodes == 1..MaxNodes
Vals == 0..MaxVal
Futures == 1..MaxFutures

\* The things a computation can have as a source: a node, the LoadingState
\* of a node, the ErrorState of a node
Sources == 1..(3 * MaxNodes)
LoadingState(n) == MaxNodes + n
ErrorState(n) == 2 * MaxNodes + n
Origin(src) == ((src - 1) % MaxNodes) + 1

Promise(p) == PromiseBase + p
isPromise(v) == v > PromiseBase
FutureOf(v) == v - PromiseBase

\* ------------------------------------------------------------ user code
\* The computes the model runs.  A compute is a small program over the
\* cells it names: x, y, z are the leaf cells 1, 2, 3; A and B the memos 4, 5.
\* A compute first calls onCleanup cl times, then makes its child effects
\* (child, child2), then reads.  An "ifret" compute returns b when the cell
\* it reads is not 0 and c otherwise, each a value or a promise; a "load"
\* compute returns a.loading(), a "wait" compute a.wait().
X == 1
Y == 2
Z == 3
A == 4
B == 5
FirstDynamic == 6

Fns ==
  [ condA   |-> [op |-> "cond", a |-> X, b |-> Y, c |-> Z, child |-> "none", child2 |-> "none", cl |-> 0],
    sumB    |-> [op |-> "sum",  a |-> A, b |-> Y, c |-> NULL, child |-> "none", child2 |-> "none", cl |-> 0],
    copyB   |-> [op |-> "copy", a |-> A, b |-> NULL, c |-> NULL, child |-> "none", child2 |-> "none", cl |-> 0],
    thrB    |-> [op |-> "thr",  a |-> A, b |-> NULL, c |-> NULL, child |-> "none", child2 |-> "none", cl |-> 0],
    obsB    |-> [op |-> "copy", a |-> B, b |-> NULL, c |-> NULL, child |-> "none", child2 |-> "none", cl |-> 0],
    obsX    |-> [op |-> "copy", a |-> X, b |-> NULL, c |-> NULL, child |-> "none", child2 |-> "none", cl |-> 0],
    obsY    |-> [op |-> "copy", a |-> Y, b |-> NULL, c |-> NULL, child |-> "none", child2 |-> "none", cl |-> 0],
    obsXY   |-> [op |-> "sum",  a |-> X, b |-> Y, c |-> NULL, child |-> "none", child2 |-> "none", cl |-> 0],
    quitX   |-> [op |-> "quit", a |-> X, b |-> NULL, c |-> NULL, child |-> "none", child2 |-> "none", cl |-> 0],
    dblX    |-> [op |-> "sum",  a |-> X, b |-> X, c |-> NULL, child |-> "none", child2 |-> "none", cl |-> 0],
    thrX    |-> [op |-> "thr",  a |-> X, b |-> NULL, c |-> NULL, child |-> "none", child2 |-> "none", cl |-> 0],
    wrYZ    |-> [op |-> "wr",   a |-> Y, b |-> Z, c |-> NULL, child |-> "none", child2 |-> "none", cl |-> 0],
    obsZ    |-> [op |-> "copy", a |-> Z, b |-> NULL, c |-> NULL, child |-> "none", child2 |-> "none", cl |-> 0],
    nestThrX |-> [op |-> "nestthr", a |-> X, b |-> NULL, c |-> NULL, child |-> "obsY", child2 |-> "none", cl |-> 0],
    nestZ   |-> [op |-> "nest", a |-> Z, b |-> NULL, c |-> NULL, child |-> "obsX", child2 |-> "none", cl |-> 0],
    nestB   |-> [op |-> "nest", a |-> B, b |-> NULL, c |-> NULL, child |-> "obsY", child2 |-> "none", cl |-> 0],
    clean3X |-> [op |-> "copy", a |-> X, b |-> NULL, c |-> NULL, child |-> "none", child2 |-> "none", cl |-> 3],
    cleanY  |-> [op |-> "copy", a |-> Y, b |-> NULL, c |-> NULL, child |-> "none", child2 |-> "none", cl |-> 1],
    nestCX  |-> [op |-> "nest", a |-> X, b |-> NULL, c |-> NULL, child |-> "cleanY", child2 |-> "none", cl |-> 1],
    nest2X  |-> [op |-> "nest", a |-> X, b |-> NULL, c |-> NULL, child |-> "cleanY", child2 |-> "cleanY", cl |-> 1],
    swA     |-> [op |-> "ifret", a |-> X, b |-> Promise(1), c |-> Promise(2), child |-> "none", child2 |-> "none", cl |-> 0],
    futA    |-> [op |-> "ifret", a |-> X, b |-> Promise(1), c |-> 0, child |-> "none", child2 |-> "none", cl |-> 0],
    waitB   |-> [op |-> "wait", a |-> A, b |-> NULL, c |-> NULL, child |-> "none", child2 |-> "none", cl |-> 0],
    waitX   |-> [op |-> "wait", a |-> X, b |-> NULL, c |-> NULL, child |-> "none", child2 |-> "none", cl |-> 0],
    obsA    |-> [op |-> "copy", a |-> A, b |-> NULL, c |-> NULL, child |-> "none", child2 |-> "none", cl |-> 0],
    fwdX    |-> [op |-> "fwd",  a |-> X, b |-> NULL, c |-> NULL, child |-> "none", child2 |-> "none", cl |-> 0],
    peekA   |-> [op |-> "untr", a |-> Y, b |-> X, c |-> NULL, child |-> "none", child2 |-> "none", cl |-> 0],
    nestU   |-> [op |-> "untr", a |-> Y, b |-> X, c |-> NULL, child |-> "obsY", child2 |-> "none", cl |-> 0],
    nestAuto |-> [op |-> "nesta", a |-> Y, b |-> NULL, c |-> NULL, child |-> "none", child2 |-> "none", cl |-> 0],
    errA    |-> [op |-> "err",  a |-> A, b |-> NULL, c |-> NULL, child |-> "none", child2 |-> "none", cl |-> 0],
    loadA   |-> [op |-> "load", a |-> A, b |-> NULL, c |-> NULL, child |-> "none", child2 |-> "none", cl |-> 0],
    loadB   |-> [op |-> "load", a |-> B, b |-> NULL, c |-> NULL, child |-> "none", child2 |-> "none", cl |-> 0],
    loadX   |-> [op |-> "load", a |-> X, b |-> NULL, c |-> NULL, child |-> "none", child2 |-> "none", cl |-> 0],
    none    |-> [op |-> "none", a |-> NULL, b |-> NULL, c |-> NULL, child |-> "none", child2 |-> "none", cl |-> 0] ]

VARIABLES
  heap,      \* the fields of every node and the module-level variables
  program,   \* the user code: which effects the script may create, and how
  pc,        \* "idle", or "flush" while runEffects is inside its loop
  fi,        \* runEffects' loop index i (1-based)
  lastOp,    \* the top-level call just made and its outcome
  history    \* bookkeeping about compute invocations, for the properties

vars == <<heap, program, pc, fi, lastOp, history>>

\* ------------------------------------------------------------- results
Ok(h) == [h |-> h, ret |-> 0, thrown |-> FALSE]
Ret(h, v) == [h |-> h, ret |-> v, thrown |-> FALSE]
Throw(h, e) == [h |-> h, ret |-> e, thrown |-> TRUE]

\* (this._stateFlags & IS_LOADING) !== 0
IsLoading(h, n) == h.async[n] \/ h.waiting[n]
Bool(b) == IF b THEN 1 ELSE 0

IsCell(h, n) == h.kind[n] \in {"signal", "memo", "effect"}
HasCompute(h, n) == h.kind[n] \in {"memo", "effect"}

\* isEqual, and the equals options the tests pass
isEqual(a, b) == a = b

Equals(h, n, prev, next) ==
  CASE h.eq[n] = "id" -> isEqual(prev, next)
    [] h.eq[n] = "succ" -> prev + 1 = next
    [] OTHER -> FALSE

\* effect.ts flushEffects: scheduledEffects = true; queueMicrotask(runEffects)
flushEffects(h) == [h EXCEPT !.scheduledEffects = TRUE, !.microtask = TRUE]

\* ------------------------------------------------------------- notify
RECURSIVE notify(_, _, _), notifyEach(_, _, _, _)

\* _notify that marks the effect and never queues it
EffectNotifyNoPush(h, n, s) ==
  IF h.state[n] >= s THEN h ELSE [h EXCEPT !.state[n] = s]

\* _notify that queues the effect at the head
EffectNotifyFront(h, n, s) ==
  IF h.state[n] >= s THEN h
  ELSE IF h.state[n] = STATE_CLEAN
       THEN IF ~h.scheduledEffects
            THEN [flushEffects(h) EXCEPT !.effects = <<n>> \o @, !.state[n] = s]
            ELSE [h EXCEPT !.effects = <<n>> \o @, !.state[n] = s]
       ELSE [h EXCEPT !.state[n] = s]

\* Effect._notify
EffectNotify(h, n, s) ==
  IF h.state[n] >= s THEN h
  ELSE IF h.state[n] = STATE_CLEAN
       THEN IF ~h.scheduledEffects
            THEN [flushEffects(h) EXCEPT !.effects = Append(@, n), !.state[n] = s]
            ELSE [h EXCEPT !.effects = Append(@, n), !.state[n] = s]
       ELSE [h EXCEPT !.state[n] = s]

\* notify that marks the node and stops there
ComputationNotifyShallow(h, n, s) ==
  IF h.state[n] >= s THEN h ELSE [h EXCEPT !.state[n] = s]

\* Computation.notify
\* (an unallocated LoadingState or ErrorState has no observers)
ComputationNotify(h, n, s) ==
  IF h.state[n] >= s THEN h
  ELSE notifyEach(notifyEach(notifyEach([h EXCEPT !.state[n] = s], n, 1, STATE_CHECK),
                             LoadingState(n), 1, STATE_CHECK),
                  ErrorState(n), 1, STATE_CHECK)

notify(h, n, s) ==
  IF h.kind[n] = "effect" THEN EffectNotify(h, n, s) ELSE ComputationNotify(h, n, s)

\* for (i = 0; i < this._observers.length; i++) this._observers[i].notify(s)
notifyEach(h, n, i, s) ==
  IF i > Len(h.observers[n]) THEN h
  ELSE notifyEach(notify(h, h.observers[n][i], s), n, i + 1, s)

\* ------------------------------------------------------ loading, error
RECURSIVE setLoading(_, _, _), LoadingStateSet(_, _, _), setEach(_, _, _, _)



\* LoadingState.set(value) of the LoadingState of n
LoadingStateSet(h, n, value) ==
  notifyEach(setEach(h, n, 1, value), LoadingState(n), 1, STATE_DIRTY)

\* LoadingState.set: the loop over this._origin._observers
setEach(h, n, i, value) ==
  IF i > Len(h.observers[n]) THEN h
  ELSE setEach(IF value THEN setLoading(h, h.observers[n][i], TRUE)
               ELSE notify(h, h.observers[n][i], STATE_CHECK),
               n, i + 1, value)

\* Computation.setLoading
setLoading(h, n, loading) ==
  [IF loading # h.async[n] /\ h.hasLoading[n] THEN LoadingStateSet(h, n, loading) ELSE h
   EXCEPT !.waiting[n] = loading]

\* ErrorState.set
ErrorStateSet(h, n) == notifyEach(h, ErrorState(n), 1, STATE_DIRTY)

\* Bookkeeping: the live effects whose last run called m.error()
ErrorReaders(h, m) ==
  {e \in h.errSeen : /\ h.state[e] # STATE_DISPOSED
                      /\ Fns[h.fn[e]].op = "err" /\ Fns[h.fn[e]].a = m}

\* Bookkeeping: an effect reads the ERROR bit.  It was owed this run if the
\* bit has changed since it read it last.
NoteErrorRead(h) ==
  IF h.currentObserver = NULL THEN h
  ELSE IF h.kind[h.currentObserver] # "effect" THEN h
  ELSE [h EXCEPT !.errUnjust = IF h.currentObserver \in h.errSeen
                                  /\ h.currentObserver \notin h.owedErr
                               THEN @ \cup {h.currentObserver} ELSE @,
                 !.errSeen = @ \cup {h.currentObserver},
                 !.owedErr = @ \ {h.currentObserver}]


\* ------------------------------------------------------- bookkeeping
\* The recorded sources of m contain c, whose value has just changed.
MarkStale(h, c) ==
  [h EXCEPT !.stale = @ \cup {m \in Nodes : \E i \in 1..Len(h.sources[m]) : h.sources[m][i] = c}]

\* The live effects whose recorded sources contain c, whose value has just
\* changed: they owe a run, to the flush in progress or to the next one.
MarkOwed(h, c) ==
  LET es == {e \in Nodes : /\ h.kind[e] = "effect"
                           /\ h.state[e] # STATE_DISPOSED
                           /\ \E i \in 1..Len(h.sources[e]) : h.sources[e][i] = c}
  IN IF h.runningEffects THEN [h EXCEPT !.owedFlush = @ \cup es]
     ELSE [h EXCEPT !.owedWrite = @ \cup es]

\* The user function of n is about to be invoked.
LogInvoke(h, n) ==
  [h EXCEPT !.log = Append(@, n),
            !.owedWrite = @ \ {n},
            !.owedFlush = @ \ {n},
            !.unjustified = IF n \in h.evaluated /\ n \notin h.stale THEN @ \cup {n} ELSE @,
            !.evaluated = @ \cup {n},
            !.stale = @ \ {n},
            !.unclean = IF \/ \E cb \in h.pendingCb : cb.owner = n
                           \/ \E m \in Nodes : h.creator[m] = n /\ h.state[m] # STATE_DISPOSED
                        THEN @ \cup {n} ELSE @]

\* -------------------------------------------------------------- write
\* Effect.write
EffectWrite(h, n, v) == [h EXCEPT !.value[n] = v]

\* Computation.write of a promise: value.then(...).catch(...) registers n
\* with the promise.  A second registration of one cell with one promise
\* makes the same test and the same call as the first, so one is kept.
writePromise(h, n, v) ==
  [IF ~IsLoading(h, n) /\ h.hasLoading[n] THEN LoadingStateSet(h, n, TRUE) ELSE h
   EXCEPT !.async[n] = TRUE,
          !.promise[n] = FutureOf(v),
          !.thens = IF \E i \in 1..Len(@) : @[i] = [p |-> FutureOf(v), cell |-> n]
                    THEN @ ELSE Append(@, [p |-> FutureOf(v), cell |-> n])]

\* Computation.write of a value: this._value = value;
\* if (!WAITING) this._loading?.set(false); clear ASYNC
writeLoading(h, n, v) ==
  [IF ~h.waiting[n] /\ h.hasLoading[n]
   THEN LoadingStateSet([h EXCEPT !.promise[n] = NULL, !.value[n] = v], n, FALSE)
   ELSE [h EXCEPT !.promise[n] = NULL, !.value[n] = v]
   EXCEPT !.async[n] = FALSE]

\* if (ERROR) this._error?.set(); clear ERROR
writeError(h, n) ==
  [IF h.error[n] /\ h.hasError[n] THEN ErrorStateSet(h, n) ELSE h
   EXCEPT !.error[n] = FALSE,
          !.owedErr = IF h.error[n] THEN @ \cup ErrorReaders(h, n) ELSE @]

\* write that never consults equals
ComputationWriteAlways(h, n, v) ==
  IF isPromise(v) THEN writePromise(h, n, v)
  ELSE notifyEach(MarkOwed(MarkStale(writeError(writeLoading(h, n, v), n), n), n),
                  n, 1, STATE_DIRTY)

\* Computation.write
ComputationWrite(h, n, v) ==
  IF isPromise(v) THEN writePromise(h, n, v)
  ELSE IF h.eq[n] # "false" /\ Equals(h, n, h.value[n], v)
       THEN [h EXCEPT !.promise[n] = NULL]
       ELSE notifyEach(MarkOwed(MarkStale(writeError(writeLoading(h, n, v), n), n), n),
                       n, 1, STATE_DIRTY)

\* Bookkeeping: what became of the promise a cell received last.  A promise
\* is "pending" from write(promise) on; a value written meanwhile supersedes it.
NoteWrite(h, n, v) ==
  [h EXCEPT !.future[n] = IF isPromise(v) THEN "pending"
                          ELSE IF @ = "pending" THEN "superseded" ELSE @]

write(h, n, v) ==
  IF h.kind[n] = "effect" THEN EffectWrite(h, n, v)
  ELSE ComputationWrite(NoteWrite(h, n, v), n, v)

\* ------------------------------------------------------- owner tree
\* Owner.append
append(h, this, owner) ==
  LET next == h.nextSibling[this]
  IN [h EXCEPT !.parent[owner] = this,
               !.prevSibling = IF next # NULL
                               THEN [@ EXCEPT ![owner] = this, ![next] = owner]
                               ELSE [@ EXCEPT ![owner] = this],
               !.nextSibling = [@ EXCEPT ![owner] = next, ![this] = owner]]

\* Position of node in obs, 0 when absent (indexOf gives -1)
RECURSIVE IndexOf(_, _, _)
IndexOf(obs, node, i) ==
  IF i > Len(obs) THEN 0 ELSE IF obs[i] = node THEN i ELSE IndexOf(obs, node, i + 1)

\* swap = obs.indexOf(node); obs[swap] = obs[obs.length - 1]; obs.pop()
\* With swap = -1 the assignment sets a property that is no element, and
\* pop() still removes the last element.
SwapPopAt(obs, swap) ==
  IF Len(obs) = 0 THEN obs
  ELSE SubSeq(IF swap = 0 THEN obs ELSE [obs EXCEPT ![swap] = obs[Len(obs)]],
              1, Len(obs) - 1)

SwapPop(obs, node) == SwapPopAt(obs, IndexOf(obs, node, 1))

\* removeSourceObservers(node, index); index counts from 0
RECURSIVE removeSourceObservers(_, _, _)
removeSourceObservers(h, node, index) ==
  IF index + 1 > Len(h.sources[node]) THEN h
  ELSE removeSourceObservers(
         [h EXCEPT !.observers[h.sources[node][index + 1]] = SwapPop(@, node)],
         node, index + 1)

\* The disposal callbacks of the model record their call: callback k of
\* owner n is [owner |-> n, k |-> k].
Callback(n, k) == [owner |-> n, k |-> k]

\* One callback is called
callDisposable(h, cb) ==
  [h EXCEPT !.called = Append(@, cb),
            !.twice = IF cb \in h.pendingCb THEN @ ELSE @ \cup {cb},
            !.pendingCb = @ \ {cb}]

RECURSIVE callEach(_, _, _)
\* for (i = 0; i < this._disposal.length; i++) this._disposal[i].call(...)
callEach(h, n, i) ==
  IF i > Len(h.disposal[n]) THEN h
  ELSE callEach(callDisposable(h, h.disposal[n][i]), n, i + 1)

\* Owner.emptyDisposal, behind its guard if (this._disposal)
emptyDisposal(h, n) ==
  [callEach(h, n, 1) EXCEPT !.disposal[n] = <<>>]

\* Autorun.emptyDisposal: this._cleanup?.(); super.emptyDisposal().  The
\* finalizer of autorun n records its call as callback 0 of n
AutorunEmptyDisposal(h, n) ==
  emptyDisposal([h EXCEPT !.called = Append(@, Callback(n, 0))], n)

\* if (node._disposal) node.emptyDisposal(), on an owner or on an Autorun
emptyDisposalOf(h, n) ==
  IF h.disposal[n] = <<>> THEN h
  ELSE IF n \in h.autoruns THEN AutorunEmptyDisposal(h, n)
  ELSE emptyDisposal(h, n)

\* owner.ts onCleanup(disposable)
onCleanup(h, k) ==
  IF h.currentOwner = NULL THEN h
  ELSE [h EXCEPT !.disposal[h.currentOwner] = Append(@, Callback(h.currentOwner, k)),
                 !.pendingCb = @ \cup {Callback(h.currentOwner, k)}]

\* Owner part of disposeNode (reached as super.disposeNode()).  Bookkeeping:
\* gone holds the nodes that have been disposed
OwnerDisposeNode(h, n) ==
  LET prev == h.prevSibling[n]
  IN [emptyDisposalOf(h, n)
         EXCEPT !.state[n] = STATE_DISPOSED,
               !.gone = @ \cup {n},
               !.nextSibling = IF prev # NULL THEN [@ EXCEPT ![prev] = NULL] ELSE @,
               !.parent[n] = NULL,
               !.prevSibling[n] = NULL,
               !.context[n] = FALSE]

\* Computation.disposeNode
ComputationDisposeNode(h, n) ==
  OwnerDisposeNode([removeSourceObservers(h, n, 0) EXCEPT !.sources[n] = <<>>,
                                                          !.observers[n] = <<>>], n)

disposeNode(h, n) ==
  IF h.kind[n] = "owner" THEN OwnerDisposeNode(h, n) ELSE ComputationDisposeNode(h, n)

\* Owner.dispose(self): if (current) current._prevSibling = ...;
\* if (head) head._nextSibling = current
disposeRelink(h, current, this, self, head) ==
  [h EXCEPT !.prevSibling = IF current # NULL
                            THEN [@ EXCEPT ![current] =
                                    IF ~self THEN this ELSE h.prevSibling[this]]
                            ELSE @,
            !.nextSibling = IF head # NULL THEN [@ EXCEPT ![head] = current] ELSE @]

\* Owner.dispose(self): if (self) this.disposeNode()
disposeSelf(r, this, self, head) ==
  disposeRelink(IF self THEN disposeNode(r.h, this) ELSE r.h, r.current, this, self, head)

RECURSIVE dispose(_, _, _), disposeChildren(_, _, _), disposeNext(_, _, _)

\* dispose that calls the owner's own callbacks before it visits the children
disposeOwnFirst(h, this, self) ==
  IF h.state[this] = STATE_DISPOSED THEN h
  ELSE disposeSelf(disposeChildren(IF self THEN emptyDisposal(h, this) ELSE h,
                                   this, h.nextSibling[this]),
                   this, self, IF self THEN h.prevSibling[this] ELSE this)

\* Owner.dispose(self)
dispose(h, this, self) ==
  IF h.state[this] = STATE_DISPOSED THEN h
  ELSE disposeSelf(disposeChildren(h, this, h.nextSibling[this]), this, self,
                   IF self THEN h.prevSibling[this] ELSE this)

\* while (current && current._parent === this) { current.dispose(true);
\*   current.disposeNode(); current = current._nextSibling }
disposeChildren(h, this, current) ==
  IF current # NULL /\ h.parent[current] = this
  THEN disposeNext(disposeNode(dispose(h, current, TRUE), current), this, current)
  ELSE [h |-> h, current |-> current]

\* current = current._nextSibling
disposeNext(h, this, current) == disposeChildren(h, this, h.nextSibling[current])

\* cleanup that leaves the disposal callbacks alone
cleanupChildrenOnly(h, node) ==
  [IF h.nextSibling[node] # NULL /\ h.parent[h.nextSibling[node]] = node
   THEN dispose(h, node, FALSE) ELSE h
   EXCEPT !.context[node] = FALSE]

\* core.ts cleanup(node)
cleanup(h, node) ==
  [emptyDisposalOf(IF h.nextSibling[node] # NULL /\ h.parent[h.nextSibling[node]] = node
                   THEN dispose(h, node, FALSE) ELSE h, node)
   EXCEPT !.context[node] = FALSE]

\* owner.ts lookup(owner, HANDLER): the nearest owner that has a handler
RECURSIVE lookup(_, _)
lookup(h, owner) ==
  IF owner = NULL THEN NULL
  ELSE IF h.context[owner] THEN owner
  ELSE lookup(h, h.parent[owner])

RECURSIVE handleError(_, _, _)

\* The handlers the model installs record the error and the owner it was
\* raised in; "catch" returns, "rethrow" throws the error again, "translate"
\* throws SecondError when it is given TestError and returns otherwise
HandlerThrows(h, handler, error) ==
  \/ h.fn[handler] = "rethrow"
  \/ h.fn[handler] = "translate" /\ error = TestError

HandlerError(h, handler, error) ==
  IF h.fn[handler] = "translate" THEN SecondError ELSE error

callHandler(h, handler, error) ==
  [h EXCEPT !.handled = Append(@, [from |-> h.raising, by |-> handler, error |-> error])]

\* owner.ts handleError: try { handler(error) }
\* catch (error) { handleError(owner._parent, error) }
handleWith(h, handler, owner, error) ==
  IF handler = NULL THEN Throw(h, error)
  ELSE IF HandlerThrows(h, handler, error)
       THEN handleError(callHandler(h, handler, error), h.parent[owner],
                        HandlerError(h, handler, error))
       ELSE Ok(callHandler(h, handler, error))

handleError(h, owner, error) == handleWith(h, lookup(h, owner), owner, error)

\* ------------------------------------------------------------ tracking
\* core.ts track(computation); newSources = <<>> stands for null (the code
\* never holds an empty array there).  Bookkeeping: grown holds the observers
\* for which the call in progress has made or extended a newSources array
track(h, computation) ==
  IF h.currentObserver = NULL THEN h
  ELSE IF /\ h.newSources = <<>>
          /\ h.newSourcesIndex + 1 <= Len(h.sources[h.currentObserver])
          /\ h.sources[h.currentObserver][h.newSourcesIndex + 1] = computation
       THEN [h EXCEPT !.newSourcesIndex = @ + 1]
       ELSE [h EXCEPT !.newSources = Append(@, computation),
                      !.grown = @ \cup {h.currentObserver}]

\* for (i = newSourcesIndex; i < node._sources.length; i++) push node into
\* node._sources[i]._observers
RECURSIVE addObservers(_, _, _)
addObservers(h, node, i) ==
  IF i + 1 > Len(h.sources[node]) THEN h
  ELSE addObservers([h EXCEPT !.observers[h.sources[node][i + 1]] = Append(@, node)],
                    node, i + 1)

\* update(): the edit of node._sources and of the observers of its sources
spliceSources(h, node) ==
  IF h.newSources # <<>>
  THEN addObservers(
         [removeSourceObservers(h, node, h.newSourcesIndex) EXCEPT !.sources[node] =
            IF @ # <<>> /\ h.newSourcesIndex > 0
            THEN SubSeq(@, 1, h.newSourcesIndex) \o h.newSources
            ELSE h.newSources],
         node, h.newSourcesIndex)
  ELSE IF h.newSourcesIndex < Len(h.sources[node])
       THEN [removeSourceObservers(h, node, h.newSourcesIndex) EXCEPT !.sources[node] =
               SubSeq(@, 1, h.newSourcesIndex)]
       ELSE h

\* Computation.setError
ComputationSetError(h, n, error) ==
  Ok([IF ~h.error[n] /\ h.hasError[n] THEN ErrorStateSet(h, n) ELSE h
      EXCEPT !.value[n] = error, !.error[n] = TRUE,
             !.owedErr = IF h.error[n] THEN @ ELSE @ \cup ErrorReaders(h, n)])

\* an effect that stores the error as a memo does
EffectSetErrorStored(h, n, error) == ComputationSetError(h, n, error)

\* Effect._setError
EffectSetError(h, n, error) == handleError([h EXCEPT !.raising = n], n, error)

setError(h, n, error) ==
  IF h.kind[n] = "effect" THEN EffectSetError(h, n, error)
  ELSE ComputationSetError(h, n, error)

\* new Computation(undefined, fn) / new Effect(undefined, fn) made while
\* currentOwner is h.currentOwner
adopt(h, n) ==
  IF h.currentOwner # NULL THEN append(h, h.currentOwner, n) ELSE h

\* new Owner() at top level, as createRoot and catchError make it
NewOwner(h, wrap) ==
  [h EXCEPT !.nextId = @ + 1, !.kind[h.nextId] = "owner", !.fn[h.nextId] = wrap,
            !.context[h.nextId] = (wrap \in {"catch", "rethrow", "translate"})]

\* index.ts catchError(() => { throw error }, handler) called in a user
\* function: the new owner is a child of the current one
catchError(h, wrap, error) ==
  IF h.nextId > MaxNodes THEN Ok([h EXCEPT !.overflow = TRUE])
  ELSE handleError([adopt(NewOwner(h, wrap), h.nextId)
                    EXCEPT !.raising = h.nextId, !.creator[h.nextId] = h.currentOwner],
                   h.nextId, error)

enlist(h, n, kind) ==
  IF kind = "effect" THEN [h EXCEPT !.effects = Append(@, n)] ELSE h

NewComputation(h, kind, fname) ==
  IF h.nextId > MaxNodes THEN [h EXCEPT !.overflow = TRUE]
  ELSE enlist(adopt([h EXCEPT !.nextId = @ + 1,
                              !.kind[h.nextId] = kind,
                              !.fn[h.nextId] = fname,
                              !.state[h.nextId] = STATE_DIRTY,
                              !.creator[h.nextId] = h.currentOwner,
                              !.owedFlush = IF kind = "effect" /\ h.runningEffects
                                            THEN @ \cup {h.nextId} ELSE @],
                    h.nextId),
              h.nextId, kind)

\* ------------------------------------------------- validate and re-run
RECURSIVE updateIfNecessary(_, _), checkSources(_, _, _, _), update(_, _),
          compute(_, _, _, _), RunFn(_, _), read(_, _), wait(_, _), loading(_, _),
          newAutorun(_, _)

\* if ((this._stateFlags & IS_LOADING) !== 0) newLoadingState = true
noteLoading(h, n) ==
  IF IsLoading(h, n) THEN [h EXCEPT !.newLoadingState = TRUE] ELSE h

\* Computation.read, after updateIfNecessary and track
readValue(h, n) ==
  IF h.error[n] THEN Throw(h, h.value[n]) ELSE Ret(h, h.value[n])

readTracked(r, n) ==
  IF r.thrown THEN r ELSE readValue(noteLoading(track(r.h, n), n), n)

\* Computation.read
read(h, n) ==
  readTracked(IF HasCompute(h, n) THEN updateIfNecessary(h, n) ELSE Ok(h), n)

\* Computation.wait, after updateIfNecessary and track
waitValue(h, n) ==
  IF IsLoading(h, n) THEN Throw([h EXCEPT !.newLoadingState = TRUE], NotReadyError)
  ELSE readValue(h, n)

waitTracked(r, n) ==
  IF r.thrown THEN r ELSE waitValue(track(r.h, n), n)

\* Computation.wait
wait(h, n) ==
  waitTracked(IF HasCompute(h, n) THEN updateIfNecessary(h, n) ELSE Ok(h), n)

\* Computation.loading: the LoadingState is made on the first call
loading(h, n) ==
  updateIfNecessary(track([h EXCEPT !.hasLoading[n] = TRUE], LoadingState(n)), n)

\* Computation.error, after updateIfNecessary
errorTracked(r, n) ==
  IF r.thrown THEN r
  ELSE Ret(NoteErrorRead(track(r.h, ErrorState(n))), Bool(r.h.error[n]))

\* Computation.error: the ErrorState is made on the first call
error(h, n) ==
  errorTracked(updateIfNecessary([h EXCEPT !.hasError[n] = TRUE], n), n)

\* The user functions (Fns), continued after their first read
sumEnd(v1, r2) ==
  IF r2.thrown THEN r2 ELSE Ret(r2.h, (v1 + r2.ret) % (MaxVal + 1))

sumRest(r1, f) ==
  IF r1.thrown THEN r1 ELSE sumEnd(r1.ret, read(r1.h, f.b))

condRest(r1, f) ==
  IF r1.thrown THEN r1 ELSE read(r1.h, IF r1.ret # 0 THEN f.a ELSE f.b)

thrRest(r1) ==
  IF r1.thrown THEN r1
  ELSE IF r1.ret = BadVal THEN Throw(r1.h, TestError) ELSE r1

ifRest(r1, f) ==
  IF r1.thrown THEN r1 ELSE Ret(r1.h, IF r1.ret # 0 THEN f.b ELSE f.c)

\* const c2 = comp.wait(); compute(); return c2 + 1.  Bookkeeping: whether
\* the function of the observer stopped at wait() or ran past it
waitRest(r1) ==
  IF r1.thrown
  THEN IF r1.ret = NotReadyError
       THEN [r1 EXCEPT !.h.aborted = @ \cup {r1.h.currentObserver}]
       ELSE r1
  ELSE Ret([r1.h EXCEPT !.past = Append(@, r1.h.currentObserver),
                        !.aborted = @ \ {r1.h.currentObserver}],
           IF r1.ret < 0 THEN r1.ret ELSE (r1.ret + 1) % (MaxVal + 1))

\* the function passed to untrack: () => { createEffect(child); return b.read() }
untrackBody(h, f) ==
  read(IF f.child # "none" THEN NewComputation(h, "effect", f.child) ELSE h, f.b)

\* core.ts untrack(fn): if (currentObserver === null) return fn();
\* return compute(getOwner(), fn, null)
untrack(h, f) ==
  IF h.currentObserver = NULL THEN untrackBody(h, f)
  ELSE [untrackBody([h EXCEPT !.currentObserver = NULL], f)
        EXCEPT !.h.currentObserver = h.currentObserver]

\* return a.read() + untrack(() => ...)
untrRest(r1, f) ==
  IF r1.thrown THEN r1 ELSE sumEnd(r1.ret, untrack(r1.h, f))

\* $x(); catchError(() => { throw error }, (e) => { throw e })
fwdRest(r1) ==
  IF r1.thrown THEN r1 ELSE catchError(r1.h, "rethrow", TestError)

\* n was made by r or under it
RECURSIVE CreatedUnder(_, _, _)
CreatedUnder(h, n, r) ==
  \/ n = r
  \/ h.creator[n] # NULL /\ CreatedUnder(h, h.creator[n], r)

\* const v = $x(); dispose(); return v, with the dispose handle of the
\* createRoot the effect was made in (none for an effect made outside).
\* Bookkeeping: quit holds the nodes made under a root whose handle a
\* function has called
quitRest(r1) ==
  IF r1.thrown \/ r1.h.creator[r1.h.currentObserver] = NULL THEN r1
  ELSE Ret([dispose(r1.h, r1.h.creator[r1.h.currentObserver], TRUE) EXCEPT !.quit =
              @ \cup {n \in Nodes : /\ r1.h.kind[n] # "none"
                                    /\ CreatedUnder(r1.h, n, r1.h.creator[r1.h.currentObserver])}],
           r1.ret)

wrRest(r1, f) ==
  IF r1.thrown THEN r1 ELSE Ret(write(r1.h, f.b, r1.ret), r1.ret)

\* onCleanup(A); onCleanup(B); ... at the start of a user function
RECURSIVE registerCleanups(_, _, _)
registerCleanups(h, cl, k) ==
  IF k > cl THEN h ELSE registerCleanups(onCleanup(h, k), cl, k + 1)

\* createEffect(child); createEffect(child2) inside a user function
makeSecond(h, f) ==
  IF f.child2 # "none" THEN NewComputation(h, "effect", f.child2) ELSE h

\* a "nesta" function makes its child with new Autorun(child); no function
\* of the programs that use it throws
makeChildren(h, f) ==
  IF f.op \in {"nest", "nestthr"}
  THEN makeSecond(NewComputation(h, "effect", f.child), f)
  ELSE IF f.op = "nesta" THEN newAutorun(h, f.child).h
  ELSE h

\* The cell a user function reads first, and the heap it reads it in: a
\* nesting function has made its child effect before
firstRead(h, f) ==
  CASE f.op = "load" -> loading(h, f.a)
    [] f.op = "wait" -> wait(h, f.a)
    [] f.op = "err" -> error(h, f.a)
    [] OTHER -> read(makeChildren(registerCleanups(h, f.cl, 1), f),
                     IF f.op = "cond" THEN f.c ELSE f.a)

runProgram(r1, f) ==
  CASE f.op = "sum" -> sumRest(r1, f)
    [] f.op = "cond" -> condRest(r1, f)
    [] f.op \in {"thr", "nestthr"} -> thrRest(r1)
    [] f.op = "wr" -> wrRest(r1, f)
    [] f.op = "ifret" -> ifRest(r1, f)
    [] f.op = "wait" -> waitRest(r1)
    [] f.op = "fwd" -> fwdRest(r1)
    [] f.op = "untr" -> untrRest(r1, f)
    [] f.op = "quit" -> quitRest(r1)
    [] OTHER -> r1

\* The user functions (Fns), run with node as the current observer
RunFn(h, node) ==
  IF Fns[h.fn[node]].op = "none" THEN Ok(LogInvoke(h, node))
  ELSE runProgram(firstRead(LogInvoke(h, node), Fns[h.fn[node]]), Fns[h.fn[node]])

\* core.ts compute: catch (e) { if (!(e instanceof NotReadyError)) throw e;
\* else return observer._value }
computeCatch(r, observer) ==
  IF r.thrown /\ r.ret = NotReadyError THEN Ret(r.h, r.h.value[observer]) ELSE r

\* core.ts compute(owner, fn, observer)
compute(h, owner, node, observer) ==
  [computeCatch(RunFn([h EXCEPT !.currentOwner = owner, !.currentObserver = observer],
                      node), observer)
   EXCEPT !.h.currentOwner = h.currentOwner,
          !.h.currentObserver = h.currentObserver]

\* core.ts update(node): node.setLoading(newLoadingState)
updateLoading(h, node) == setLoading(h, node, h.newLoadingState)

\* core.ts update(node), after compute: catch (error) { node.setError(error);
\* return }, else write, the edit of the sources, setLoading, the restore of
\* the scratch variables and _state = STATE_CLEAN
updateEnd(rc, node, prevSources, prevSourcesIndex, prevLoadingState) ==
  IF rc.thrown
  THEN setError(rc.h, node, rc.ret)
  ELSE Ok([updateLoading(spliceSources(write(rc.h, node, rc.ret), node), node)
           EXCEPT !.newSources = prevSources,
                  !.newSourcesIndex = prevSourcesIndex,
                  !.newLoadingState = prevLoadingState,
                  !.state[node] = STATE_CLEAN])

\* core.ts update(node)
update(h, node) ==
  updateEnd(compute(cleanup([h EXCEPT !.newSources = <<>>, !.newSourcesIndex = 0,
                                      !.newLoadingState = FALSE], node),
                    node, node, node),
            node, h.newSources, h.newSourcesIndex, h.newLoadingState)

\* Computation.updateIfNecessary: after one source of the loop; r.ret is the
\* isLoading the source returned
checkNext(r, n, i, anyLoading) ==
  IF r.thrown THEN r
  ELSE IF r.h.state[n] = STATE_DIRTY THEN Ret(r.h, Bool(anyLoading \/ r.ret = 1))
  ELSE checkSources(r.h, n, i + 1, anyLoading \/ r.ret = 1)

\* Computation.updateIfNecessary: the loop over _sources in state CHECK;
\* the updateIfNecessary of a LoadingState or ErrorState is that of its origin
checkSources(h, n, i, anyLoading) ==
  IF i > Len(h.sources[n]) THEN Ret(h, Bool(anyLoading))
  ELSE checkNext(updateIfNecessary(h, Origin(h.sources[n][i])), n, i, anyLoading)

\* return (this._stateFlags & IS_LOADING) !== 0
returnLoading(r, n) ==
  IF r.thrown THEN r ELSE Ret(r.h, Bool(IsLoading(r.h, n)))

\* Computation.updateIfNecessary: after the loop; r.ret is anyLoading
validated(r, n) ==
  IF r.thrown THEN r
  ELSE IF r.h.state[n] = STATE_DIRTY THEN update(r.h, n)
  ELSE Ok([setLoading(r.h, n, r.ret = 1) EXCEPT !.state[n] = STATE_CLEAN])

\* Computation.updateIfNecessary
updateIfNecessary(h, n) ==
  IF h.state[n] = STATE_DISPOSED THEN Throw(h, DisposedError)
  ELSE IF h.state[n] = STATE_CLEAN THEN Ret(h, Bool(IsLoading(h, n)))
  ELSE returnLoading(validated(IF h.state[n] = STATE_CHECK THEN checkSources(h, n, 1, FALSE)
                               ELSE Ret(h, 0), n), n)

\* ------------------------------------------------------- effect queue
\* runTop: the owners from node upwards whose state is not CLEAN
RECURSIVE Ancestors(_, _), runAncestors(_, _, _), runRest(_, _, _)

\* runTop that looks at the node alone
AncestorsSelf(h, current) ==
  IF h.state[current] # STATE_CLEAN THEN <<current>> ELSE <<>>

Ancestors(h, current) ==
  IF current = NULL THEN <<>>
  ELSE (IF h.state[current] # STATE_CLEAN THEN <<current>> ELSE <<>>)
       \o Ancestors(h, h.parent[current])

runAncestors(h, ancestors, i) ==
  IF i < 1 THEN Ok(h)
  ELSE IF h.state[ancestors[i]] # STATE_DISPOSED
       THEN runRest(updateIfNecessary(h, ancestors[i]), ancestors, i)
       ELSE runAncestors(h, ancestors, i - 1)

runRest(r, ancestors, i) ==
  IF r.thrown THEN r ELSE runAncestors(r.h, ancestors, i - 1)

runFrom(h, ancestors) == runAncestors(h, ancestors, Len(ancestors))

runTop(h, node) == runFrom(h, Ancestors(h, node))

\* --------------------------------------------------------------- state
\* The leaf cells x, y, z (createSignal) and the memos A and B
\* (new Computation(undefined, fn)) the program uses exist from the start;
\* effects and their owners are made by the actions.
InitHeapOf(cells, aFn, bFn, xEq) ==
  [ kind |-> [n \in Nodes |-> IF n \in cells \cap {X, Y, Z} THEN "signal"
                              ELSE IF n \in cells \cap {A, B} THEN "memo" ELSE "none"],
    fn |-> [n \in Nodes |-> IF n = A THEN aFn ELSE IF n = B THEN bFn ELSE "none"],
    eq |-> [n \in Nodes |-> IF n = X THEN xEq ELSE "id"],
    state |-> [n \in Nodes |-> IF n \in cells \cap {A, B} THEN STATE_DIRTY ELSE STATE_CLEAN],
    value |-> [n \in Nodes |-> IF n \in {X, Y, Z} THEN 0 ELSE Undefined],
    error |-> [n \in Nodes |-> FALSE],
    waiting |-> [n \in Nodes |-> FALSE],
    async |-> [n \in Nodes |-> FALSE],
    promise |-> [n \in Nodes |-> NULL],
    hasLoading |-> [n \in Nodes |-> FALSE],
    hasError |-> [n \in Nodes |-> FALSE],
    sources |-> [n \in Nodes |-> <<>>],
    observers |-> [n \in Sources |-> <<>>],
    parent |-> [n \in Nodes |-> NULL],
    nextSibling |-> [n \in Nodes |-> NULL],
    prevSibling |-> [n \in Nodes |-> NULL],
    context |-> [n \in Nodes |-> FALSE],
    effects |-> <<>>,
    scheduledEffects |-> FALSE,
    runningEffects |-> FALSE,
    microtask |-> FALSE,
    currentOwner |-> NULL,
    currentObserver |-> NULL,
    newSources |-> <<>>,
    newSourcesIndex |-> 0,
    newLoadingState |-> FALSE,
    settled |-> [p \in Futures |-> FALSE],
    outcome |-> [p \in Futures |-> Undefined],
    thens |-> <<>>,
    future |-> [n \in Nodes |-> "none"],
    ignored |-> {},
    past |-> <<>>,
    errSeen |-> {},
    owedErr |-> {},
    errUnjust |-> {},
    aborted |-> {},
    nextId |-> FirstDynamic,
    overflow |-> FALSE,
    handled |-> <<>>,
    raising |-> NULL,
    autoruns |-> {},
    paused |-> {},
    invalidated |-> {},
    grown |-> {},
    gone |-> {},
    quit |-> {},
    log |-> <<>>,
    evaluated |-> {},
    stale |-> {},
    unjustified |-> {},
    owedWrite |-> {},
    owedFlush |-> {},
    creator |-> [n \in Nodes |-> NULL],
    disposal |-> [n \in Nodes |-> <<>>],
    called |-> <<>>,
    pendingCb |-> {},
    twice |-> {},
    unclean |-> {} ]

InitHeap(cells, bFn, xEq) == InitHeapOf(cells, "condA", bFn, xEq)

\* The heap after createRoot((dispose) => { ... }) has made the cells of
\* under inside the root: the memo A is appended to the root owner, a leaf
\* cell is not (the constructor passes signal = true)
Rooted(h, under) ==
  IF under = {} THEN h
  ELSE [IF A \in under THEN append(NewOwner(h, "root"), h.nextId, A)
        ELSE NewOwner(h, "root")
        EXCEPT !.creator = [n \in Nodes |-> IF n \in under THEN h.nextId ELSE @[n]]]

NoOp == [op |-> "none", node |-> NULL, ret |-> 0, thrown |-> FALSE]

InitHistory == [ran |-> <<>>, dead |-> {}, created |-> 0, firstNotified |-> <<>>]

\* program: the static cells in use, the effect functions the script may
\* pass to createEffect, the wrappers it may call createEffect in, and how
\* many createEffect calls the script makes
InitWith(cells, bFns, xEqs, effectFns, wraps, creates) ==
  /\ \E bFn \in bFns, xEq \in xEqs : heap = InitHeap(cells, bFn, xEq)
  /\ program = [cells |-> cells, effectFns |-> effectFns, wraps |-> wraps,
                creates |-> creates, asks |-> {}, futures |-> {}, promised |-> {}]
  /\ pc = "idle"
  /\ fi = 0
  /\ lastOp = NoOp
  /\ history = InitHistory

\* the same for a program with a choice of function for the memo A, cells
\* made inside a root, top-level calls of loading(), wait() or error(),
\* promises at hand, and the leaf cells the script writes promises to
InitScript(cells, aFns, bFns, effectFns, under, creates, asks, futures, promised) ==
  /\ \E aFn \in aFns, bFn \in bFns :
       heap = Rooted(InitHeapOf(cells, aFn, bFn, "id"), under)
  /\ program = [cells |-> cells, effectFns |-> effectFns, wraps |-> {"bare"},
                creates |-> creates, asks |-> asks, futures |-> futures,
                promised |-> promised]
  /\ pc = "idle"
  /\ fi = 0
  /\ lastOp = NoOp
  /\ history = InitHistory

InitAsyncWith(cells, aFns, bFns, effectFns, under, creates, asks, futures) ==
  InitScript(cells, aFns, bFns, effectFns, under, creates, asks, futures,
             cells \cap {X, Y, Z})

\* What a top-level call starts from
Begin == [heap EXCEPT !.log = <<>>, !.handled = <<>>, !.called = <<>>, !.ignored = {},
                      !.past = <<>>, !.grown = {}]

Idle(h) == [history EXCEPT !.ran = <<>>]

\* The effects among the observers of s that a changing write to s enqueues,
\* in the order write() notifies them
RECURSIVE Notified(_, _, _)
Notified(h, s, i) ==
  IF i > Len(h.observers[s]) THEN <<>>
  ELSE LET o == h.observers[s][i]
       IN (IF h.kind[o] = "effect" /\ h.state[o] = STATE_CLEAN THEN <<o>> ELSE <<>>)
          \o Notified(h, s, i + 1)

\* ------------------------------------------------------------- actions
\* setX(v): node.write(v) at top level
Write ==
  \E s \in program.cells \cap {X, Y, Z}, v \in Vals :
    /\ pc = "idle"
    /\ heap' = write(Begin, s, v)
    /\ lastOp' = [NoOp EXCEPT !.op = "write", !.node = s, !.ret = v]
    /\ history' = [Idle(heap') EXCEPT !.firstNotified =
                     IF heap'.value[s] # heap.value[s] THEN @ \o Notified(heap, s, 1) ELSE @]
    /\ UNCHANGED <<program, pc, fi>>

\* $x(), A.read(), B.read() at top level
Read ==
  \E n \in program.cells :
    /\ pc = "idle"
    /\ \E r \in {read(Begin, n)} :
         /\ heap' = r.h
         /\ lastOp' = [NoOp EXCEPT !.op = "read", !.node = n, !.ret = r.ret,
                                   !.thrown = r.thrown]
    /\ history' = Idle(heap')
    /\ UNCHANGED <<program, pc, fi>>

\* createEffect(fn) at top level: bare, inside createRoot(dispose => ...), or
\* inside catchError(() => ..., handler)
createEffect(h, f, wrap) ==
  IF wrap = "bare" THEN NewComputation(h, "effect", f)
  ELSE IF wrap = "nested"
       THEN IF h.nextId + 2 > MaxNodes THEN [h EXCEPT !.overflow = TRUE]
            ELSE [NewComputation([append(NewOwner(NewOwner(h, "catch"), "rethrow"),
                                         h.nextId, h.nextId + 1)
                                  EXCEPT !.currentOwner = h.nextId + 1], "effect", f)
                  EXCEPT !.currentOwner = NULL]
  ELSE IF h.nextId + 1 > MaxNodes THEN [h EXCEPT !.overflow = TRUE]
  ELSE [NewComputation([NewOwner(h, wrap) EXCEPT !.currentOwner = h.nextId], "effect", f)
        EXCEPT !.currentOwner = NULL]

CreateEffect ==
  \E f \in program.effectFns, wrap \in program.wraps :
    /\ pc = "idle"
    /\ history.created < program.creates
    /\ heap' = createEffect(Begin, f, wrap)
    /\ ~heap'.overflow
    /\ lastOp' = [NoOp EXCEPT !.op = "createEffect", !.node = heap'.nextId - 1]
    /\ history' = [Idle(heap') EXCEPT !.created = @ + 1,
                                      !.firstNotified = Append(@, heap'.nextId - 1)]
    /\ UNCHANGED <<program, pc, fi>>

\* the dispose handle createRoot passed: owner.dispose()
Dispose ==
  \E r \in Nodes :
    /\ pc = "idle"
    /\ heap.kind[r] = "owner" /\ heap.fn[r] = "root"
    /\ heap.state[r] # STATE_DISPOSED
    /\ heap' = dispose(Begin, r, TRUE)
    /\ lastOp' = [NoOp EXCEPT !.op = "dispose", !.node = r]
    /\ history' = [Idle(heap') EXCEPT !.dead =
                     @ \cup {n \in Nodes : heap.kind[n] # "none" /\ CreatedUnder(heap, n, r)}]
    /\ UNCHANGED <<program, pc, fi>>

\* ------------------------------------------------------------ promises
\* The callback write() gave to promise.then / promise.catch, called with the
\* outcome of the promise: if (this._promise === value) this.write(v), or
\* this.setError(e) for a rejection
deliverAlways(h, reg) ==
  IF h.outcome[reg.p] = TestError
  THEN [setError(h, reg.cell, TestError).h EXCEPT !.future[reg.cell] = "rejected"]
  ELSE [write(h, reg.cell, h.outcome[reg.p]) EXCEPT !.future[reg.cell] = "resolved"]

deliver(h, reg) ==
  IF h.promise[reg.cell] # reg.p THEN [h EXCEPT !.ignored = @ \cup {reg.cell}]
  ELSE IF h.outcome[reg.p] = TestError
       THEN [setError(h, reg.cell, TestError).h EXCEPT !.future[reg.cell] = "rejected"]
       ELSE [write(h, reg.cell, h.outcome[reg.p]) EXCEPT !.future[reg.cell] = "resolved"]

\* the callbacks registered with promise p, in the order of registration
RECURSIVE deliverAll(_, _, _)
deliverAll(h, p, i) ==
  IF i > Len(h.thens) THEN [h EXCEPT !.thens = SelectSeq(@, LAMBDA t : t.p # p)]
  ELSE deliverAll(IF h.thens[i].p = p THEN deliver(h, h.thens[i]) ELSE h, p, i + 1)

\* node.write(promise) at top level
WriteFuture ==
  \E s \in program.promised, p \in program.futures :
    /\ pc = "idle"
    /\ heap' = write(Begin, s, Promise(p))
    /\ lastOp' = [NoOp EXCEPT !.op = "writeFuture", !.node = s, !.ret = p]
    /\ history' = Idle(heap')
    /\ UNCHANGED <<program, pc, fi>>

\* promise p resolves with v, or rejects when no cell holds it as its
\* current promise; the callbacks registered so far run
Settle ==
  \E p \in program.futures, v \in Vals \cup {TestError} :
    /\ pc = "idle"
    /\ ~heap.settled[p]
    /\ v = TestError => \A c \in Nodes : heap.promise[c] # p
    /\ heap' = deliverAll([Begin EXCEPT !.settled[p] = TRUE, !.outcome[p] = v], p, 1)
    /\ lastOp' = [NoOp EXCEPT !.op = "settle", !.node = p, !.ret = v]
    /\ history' = Idle(heap')
    /\ UNCHANGED <<program, pc, fi>>

\* a callback registered with a promise that had settled before runs
Deliver ==
  \E i \in 1..Len(heap.thens) :
    /\ pc = "idle"
    /\ heap.settled[heap.thens[i].p]
    /\ \A k \in 1..(i - 1) : ~heap.settled[heap.thens[k].p]
    /\ heap' = deliver([Begin EXCEPT !.thens = SubSeq(@, 1, i - 1) \o SubSeq(@, i + 1, Len(@))],
                       heap.thens[i])
    /\ lastOp' = [NoOp EXCEPT !.op = "deliver", !.node = heap.thens[i].cell,
                              !.ret = heap.thens[i].p]
    /\ history' = Idle(heap')
    /\ UNCHANGED <<program, pc, fi>>

\* node.loading(), node.wait(), node.error() at top level
Call(how, h, n) ==
  CASE how = "loading" -> loading(h, n)
    [] how = "wait" -> wait(h, n)
    [] OTHER -> error(h, n)

Ask ==
  \E n \in program.cells, how \in program.asks :
    /\ pc = "idle"
    /\ \E r \in {Call(how, Begin, n)} :
         /\ heap' = r.h
         /\ lastOp' = [NoOp EXCEPT !.op = how, !.node = n, !.ret = r.ret,
                                   !.thrown = r.thrown]
    /\ history' = Idle(heap')
    /\ UNCHANGED <<program, pc, fi>>

\* runEffects up to its loop
RunEffectsBegin(h, op) ==
  IF Len(h.effects) = 0
  THEN /\ heap' = [h EXCEPT !.scheduledEffects = FALSE]
       /\ lastOp' = [NoOp EXCEPT !.op = op]
       /\ history' = Idle(heap')
       /\ UNCHANGED <<pc, fi>>
  ELSE /\ heap' = [h EXCEPT !.runningEffects = TRUE, !.owedFlush = {}]
       /\ pc' = "flush"
       /\ fi' = 1
       /\ lastOp' = [NoOp EXCEPT !.op = op]
       /\ history' = Idle(heap')

\* flushSync(): if (!runningEffects) runEffects()
FlushSync ==
  /\ pc = "idle"
  /\ ~heap.runningEffects
  /\ RunEffectsBegin(Begin, "flushSync")
  /\ UNCHANGED program

\* the microtask queued by flushEffects runs runEffects
Microtask ==
  /\ pc = "idle"
  /\ heap.microtask
  /\ RunEffectsBegin([Begin EXCEPT !.microtask = FALSE], "microtask")
  /\ UNCHANGED program

\* runEffects: finally { effects = []; scheduledEffects = false;
\*                       runningEffects = false }
Finally(h) ==
  [h EXCEPT !.effects = <<>>, !.scheduledEffects = FALSE, !.runningEffects = FALSE]

\* one iteration of the loop of runEffects; an exception leaves through finally
RunEffectsStep ==
  /\ pc = "flush"
  /\ fi <= Len(heap.effects)
  /\ \E e \in {heap.effects[fi]} :
     \E r \in {IF heap.state[e] # STATE_CLEAN THEN runTop(Begin, e) ELSE Ok(Begin)} :
        /\ ~r.h.overflow
        /\ history' = [history EXCEPT !.ran = @ \o r.h.log,
                                      !.dead = @ \cup heap.quit,
                                      !.firstNotified = IF r.thrown THEN <<>> ELSE @]
        /\ IF r.thrown
           THEN /\ heap' = Finally(r.h)
                /\ pc' = "idle"
                /\ fi' = 0
                /\ lastOp' = [NoOp EXCEPT !.op = "flushThrew", !.node = e,
                                          !.ret = r.ret, !.thrown = TRUE]
           ELSE /\ heap' = r.h
                /\ pc' = "flush"
                /\ fi' = fi + 1
                /\ lastOp' = [NoOp EXCEPT !.op = "runTop", !.node = e]
  /\ UNCHANGED program

\* the loop of runEffects is over
RunEffectsEnd ==
  /\ pc = "flush"
  /\ fi > Len(heap.effects)
  /\ heap' = Finally(Begin)
  /\ pc' = "idle"
  /\ fi' = 0
  /\ lastOp' = [NoOp EXCEPT !.op = "flushed"]
  /\ history' = [history EXCEPT !.firstNotified = <<>>]
  /\ UNCHANGED program

\* -------------------------------------------------------------- Autorun
\* runEffects called inside another call: the whole loop, and finally
RECURSIVE runLoop(_, _)
runLoopNext(r, i) ==
  IF r.thrown THEN [r EXCEPT !.h = Finally(r.h)] ELSE runLoop(r.h, i + 1)

runLoop(h, i) ==
  IF i > Len(h.effects) THEN Ok(Finally(h))
  ELSE runLoopNext(IF h.state[h.effects[i]] # STATE_CLEAN THEN runTop(h, h.effects[i])
                   ELSE Ok(h), i)

runEffects(h) ==
  IF Len(h.effects) = 0 THEN Ok([h EXCEPT !.scheduledEffects = FALSE])
  ELSE runLoop([h EXCEPT !.runningEffects = TRUE, !.owedFlush = {}], 1)

\* flushSync() called inside another call
flushSync(h) == IF h.runningEffects THEN Ok(h) ELSE runEffects(h)

\* new Autorun(fn, cleanup): super(undefined, fn); this._cleanup = cleanup;
\* flushSync()
newAutorun(h, f) ==
  IF h.nextId > MaxNodes THEN Ok([h EXCEPT !.overflow = TRUE])
  ELSE flushSync([NewComputation(h, "effect", f) EXCEPT !.autoruns = @ \cup {h.nextId}])

\* The paused Autoruns among the owners above n
RECURSIVE PausedAbove(_, _)
PausedAbove(h, n) ==
  IF h.parent[n] = NULL THEN {}
  ELSE (IF h.parent[n] \in h.paused THEN {h.parent[n]} ELSE {})
       \cup PausedAbove(h, h.parent[n])

\* Autorun.invalidate: this._notify(STATE_DIRTY); if (!this._paused) flushSync()
\* Bookkeeping: invalidated holds the Autoruns invalidated while they or an
\* Autorun above them were paused
invalidate(h, n) ==
  IF n \in h.paused
  THEN Ok([EffectNotify(h, n, STATE_DIRTY) EXCEPT !.invalidated = @ \cup {n}])
  ELSE flushSync([EffectNotify(h, n, STATE_DIRTY) EXCEPT !.invalidated =
                    IF PausedAbove(h, n) # {} THEN @ \cup {n} ELSE @])

\* Autorun.pause
pause(h, n) == [h EXCEPT !.paused = @ \cup {n}, !.invalidated = @ \ {n}]

\* Autorun.unpause: this._paused = false; this._updateIfNecessary()
unpause(h, n) ==
  updateIfNecessary([h EXCEPT !.paused = @ \ {n},
                              !.invalidated = {d \in @ \ {n} :
                                 d \in h.paused \/ PausedAbove(h, d) \ {n} # {}}], n)

\* Autorun.destroy: this.dispose(true)
destroy(h, n) == dispose(h, n, TRUE)

NewAutorun ==
  \E f \in program.effectFns :
    /\ pc = "idle"
    /\ history.created < program.creates
    /\ \E r \in {newAutorun(Begin, f)} :
         /\ ~r.h.overflow
         /\ heap' = r.h
         /\ lastOp' = [NoOp EXCEPT !.op = "newAutorun", !.node = heap.nextId,
                                   !.thrown = r.thrown]
    /\ history' = [Idle(heap') EXCEPT !.created = @ + 1]
    /\ UNCHANGED <<program, pc, fi>>

\* A.invalidate(), A.pause(), A.unpause(), A.destroy() at top level
Invalidate ==
  \E n \in heap.autoruns :
    /\ pc = "idle"
    /\ heap.state[n] # STATE_DISPOSED
    /\ Len(heap.effects) < MaxQueue
    /\ \E r \in {invalidate(Begin, n)} :
         /\ ~r.h.overflow
         /\ heap' = r.h
         /\ lastOp' = [NoOp EXCEPT !.op = "invalidate", !.node = n, !.thrown = r.thrown]
    /\ history' = Idle(heap')
    /\ UNCHANGED <<program, pc, fi>>

Pause ==
  \E n \in heap.autoruns :
    /\ pc = "idle"
    /\ heap.state[n] # STATE_DISPOSED
    /\ heap' = pause(Begin, n)
    /\ lastOp' = [NoOp EXCEPT !.op = "pause", !.node = n]
    /\ history' = Idle(heap')
    /\ UNCHANGED <<program, pc, fi>>

Unpause ==
  \E n \in heap.autoruns :
    /\ pc = "idle"
    /\ heap.state[n] # STATE_DISPOSED
    /\ \E r \in {unpause(Begin, n)} :
         /\ ~r.h.overflow
         /\ heap' = r.h
         /\ lastOp' = [NoOp EXCEPT !.op = "unpause", !.node = n, !.thrown = r.thrown]
    /\ history' = Idle(heap')
    /\ UNCHANGED <<program, pc, fi>>

Destroy ==
  \E n \in heap.autoruns :
    /\ pc = "idle"
    /\ heap.state[n] # STATE_DISPOSED
    /\ heap' = destroy(Begin, n)
    /\ lastOp' = [NoOp EXCEPT !.op = "destroy", !.node = n]
    /\ history' = Idle(heap')
    /\ UNCHANGED <<program, pc, fi>>

\* ------------------------------------------------------ specifications
\* Memos over three leaves, one effect on B; no compute throws or writes
InitMemo ==
  InitWith({X, Y, Z, A, B}, {"sumB", "copyB"}, {"id"}, {"obsB"}, {"bare"}, 2)

NextMemo ==
  \/ Write
  \/ Read
  \/ CreateEffect
  \/ FlushSync
  \/ Microtask
  \/ RunEffectsStep
  \/ RunEffectsEnd

SpecMemo == InitMemo /\ [][NextMemo]_vars

\* The same graph with a B that throws when A is BadVal; the effect on B is
\* made bare or under catchError
InitThrow ==
  InitWith({X, Y, Z, A, B}, {"thrB"}, {"id"}, {"obsB"}, {"bare", "catch"}, 1)

SpecThrow == InitThrow /\ [][NextMemo]_vars

\* x made with the default equals, with equals (prev, next) => prev + 1 ===
\* next, or with equals: false; observed by the memo A and by an effect
InitEquals ==
  InitWith({X, Y, Z, A}, {"none"}, {"id", "succ", "false"}, {"obsX"}, {"bare"}, 1)

SpecEquals == InitEquals /\ [][NextMemo]_vars

\* Effects on the leaves: two observers, one that writes z from y, one that
\* makes a child effect on each run
InitQueue ==
  InitWith({X, Y, Z}, {"none"}, {"id"}, {"obsX", "obsZ", "wrYZ", "nestZ"}, {"bare"}, 2)

SpecQueue == InitQueue /\ [][NextMemo]_vars

\* Effects that throw when x is BadVal, one of them after making a child;
\* made bare or under catchError
InitEffThrow ==
  InitWith({X, Y}, {"none"}, {"id"}, {"obsX", "thrX", "nestThrX"}, {"bare", "catch"}, 2)

SpecEffThrow == InitEffThrow /\ [][NextMemo]_vars

\* Effects that throw, or that call catchError around a function that throws
\* with a handler that throws again; made bare, under catchError with a
\* handler that returns, with one that throws the error again, with one that
\* throws another error, or under two nested catchError
InitHandlers ==
  InitWith({X, Y}, {"none"}, {"id"}, {"thrX", "fwdX"},
           {"bare", "catch", "rethrow", "translate", "nested"}, 2)

SpecHandlers == InitHandlers /\ [][NextMemo]_vars

\* Autoruns whose function does nothing, or registers a cleanup and reads y
InitAutorun ==
  InitWith({Y}, {"none"}, {"id"}, {"none", "cleanY"}, {"bare"}, 2)

NextAutorun ==
  \/ NewAutorun
  \/ Invalidate
  \/ Pause
  \/ Unpause
  \/ Destroy
  \/ Microtask
  \/ RunEffectsStep
  \/ RunEffectsEnd

SpecAutorun == InitAutorun /\ [][NextAutorun]_vars

\* One Autorun whose function makes a child Autorun
InitAutorunNest ==
  InitWith({Y}, {"none"}, {"id"}, {"nestAuto"}, {"bare"}, 1)

SpecAutorunNest == InitAutorunNest /\ [][NextAutorun]_vars

\* A memo A that reads z and then x or y, an effect that reads x twice and
\* one that reads x and y
InitStable ==
  InitWith({X, Y, Z, A}, {"none"}, {"id"}, {"dblX", "obsXY"}, {"bare"}, 2)

SpecStable == InitStable /\ [][NextMemo]_vars

\* Nested effects inside and outside createRoot, and the dispose handle
InitOwner ==
  InitWith({X, Z}, {"none"}, {"id"}, {"obsX", "nestZ"}, {"bare", "root"}, 2)

NextOwner ==
  \/ Write
  \/ Read
  \/ CreateEffect
  \/ Dispose
  \/ FlushSync
  \/ Microtask
  \/ RunEffectsStep
  \/ RunEffectsEnd

SpecOwner == InitOwner /\ [][NextOwner]_vars

\* Effects on x made inside or outside createRoot, one of which calls the
\* dispose handle of its root when it runs
InitQuit ==
  InitWith({X}, {"none"}, {"id"}, {"quitX", "obsX"}, {"bare", "root"}, 2)

SpecQuit == InitQuit /\ [][NextOwner]_vars

\* Effects that register disposal callbacks: one registers three, the
\* others register one and make one or two child effects that register one
\* each; made bare or inside createRoot, with the dispose handle
InitCleanup ==
  InitWith({X, Y}, {"none"}, {"id"}, {"clean3X", "nestCX", "nest2X"}, {"bare", "root"}, 2)

SpecCleanup == InitCleanup /\ [][NextOwner]_vars

\* A leaf x, the memo A that returns a promise or a value as x says, the
\* memo B that reads A, and an effect on B.loading(); promises are written
\* to x, returned by A, and settle in any order
InitAsync ==
  InitAsyncWith({X, A}, {"obsX"}, {"none"}, {"loadA", "loadX"}, {}, 1, {"loading"}, {1})

NextAsync ==
  \/ Write
  \/ WriteFuture
  \/ Settle
  \/ Deliver
  \/ Read
  \/ Ask
  \/ CreateEffect
  \/ FlushSync
  \/ Microtask
  \/ RunEffectsStep
  \/ RunEffectsEnd

SpecAsync == InitAsync /\ [][NextAsync]_vars

\* A leaf X and a memo A that returns a promise, both made inside createRoot,
\* the dispose handle of the root, and top-level calls of every kind of read
InitRooted ==
  InitAsyncWith({X, A}, {"futA"}, {"none"}, {"loadA"}, {X, A}, 0,
                {"loading", "wait", "error"}, {1})

NextRooted ==
  \/ Write
  \/ Settle
  \/ Deliver
  \/ Read
  \/ Ask
  \/ Dispose

SpecRooted == InitRooted /\ [][NextRooted]_vars

\* The same cells, and an effect made outside the root that reads A.loading()
InitRootedEffect ==
  InitAsyncWith({X, A}, {"futA"}, {"none"}, {"loadA"}, {X, A}, 1, {"loading"}, {1})

NextRootedEffect ==
  \/ Write
  \/ Settle
  \/ Deliver
  \/ Read
  \/ Ask
  \/ CreateEffect
  \/ Dispose
  \/ FlushSync
  \/ Microtask
  \/ RunEffectsStep
  \/ RunEffectsEnd

SpecRootedEffect == InitRootedEffect /\ [][NextRootedEffect]_vars

\* Two scripts: a memo A, or an effect, that reads y and, inside untrack, x;
\* the effect makes a child effect inside untrack.  x is given values and a
\* promise
InitUntrack ==
  \/ InitScript({X, Y, A}, {"peekA"}, {"none"}, {"none"}, {}, 0, {"loading"}, {1}, {X})
  \/ InitScript({X, Y}, {"none"}, {"none"}, {"nestU"}, {}, 1, {"loading"}, {1}, {X})

NextUntrack ==
  \/ Write
  \/ WriteFuture
  \/ Settle
  \/ Deliver
  \/ Read
  \/ CreateEffect
  \/ FlushSync
  \/ Microtask
  \/ RunEffectsStep
  \/ RunEffectsEnd

SpecUntrack == InitUntrack /\ [][NextUntrack]_vars

\* Two scripts with two promises: one writes them to a leaf X; the other
\* has a memo A that returns one or the other, chosen by the value of X, and
\* a memo B that reads A
InitStale ==
  \/ InitScript({X}, {"none"}, {"none"}, {"none"}, {}, 0, {"loading"}, {1, 2}, {X})
  \/ InitScript({X, A, B}, {"swA"}, {"copyB"}, {"none"}, {}, 0, {"loading"}, {1, 2}, {})

NextStale ==
  \/ Write
  \/ WriteFuture
  \/ Settle
  \/ Deliver
  \/ Read
  \/ Ask

SpecStale == InitStale /\ [][NextStale]_vars

\* Two scripts with a function that calls wait(): in one a memo A waits for
\* a leaf X that is given a promise by write; in the other a memo B waits for
\* a memo A that returns a promise or a value, chosen by X
InitWait ==
  \/ InitScript({X, A}, {"waitX"}, {"none"}, {"none"}, {}, 0, {"loading"}, {1}, {X})
  \/ InitScript({X, A, B}, {"futA"}, {"waitB"}, {"none"}, {}, 0, {"loading"}, {1}, {})

NextWait ==
  \/ Write
  \/ WriteFuture
  \/ Settle
  \/ Deliver
  \/ Read
  \/ Ask

SpecWait == InitWait /\ [][NextWait]_vars

\* A memo A that throws when x is BadVal and a memo B that returns A.read();
\* the script reads them and calls error() on them
InitErrors(effectFns, creates, asks) ==
  /\ heap = InitHeapOf({X, A, B}, "thrX", "copyB", "id")
  /\ program = [cells |-> {X, A, B}, effectFns |-> effectFns,
                wraps |-> {"bare", "catch"}, creates |-> creates, asks |-> asks,
                futures |-> {}, promised |-> {}]
  /\ pc = "idle"
  /\ fi = 0
  /\ lastOp = NoOp
  /\ history = InitHistory

InitLatch == InitErrors({"none"}, 0, {"error"})

NextLatch ==
  \/ Write
  \/ Read
  \/ Ask

SpecLatch == InitLatch /\ [][NextLatch]_vars

\* The same memos and an effect that reads A or A.error(), made bare or under
\* catchError
InitLatchEffect == InitErrors({"obsA", "errA"}, 1, {})

SpecLatchEffect == InitLatchEffect /\ [][NextMemo]_vars

\* ---------------------------------------------------- reference values
\* What the user function of n yields when everything is evaluated from
\* scratch on the current leaf values (pure computes only)
RECURSIVE Eval(_, _), EvalFn(_, _)
Eval(h, n) ==
  IF h.kind[n] = "signal" THEN h.value[n] ELSE EvalFn(h, Fns[h.fn[n]])

EvalFn(h, f) ==
  CASE f.op = "copy" -> Eval(h, f.a)
    [] f.op = "sum" -> (Eval(h, f.a) + Eval(h, f.b)) % (MaxVal + 1)
    [] f.op = "cond" -> IF Eval(h, f.c) # 0 THEN Eval(h, f.a) ELSE Eval(h, f.b)
    [] OTHER -> Undefined

\* ------------------------------------------------------------ properties
\* C1 (glitch-freedom): with pure computes and identity equality, a read()
\* of a computed cell returns the value a from-scratch evaluation of its
\* function gives on the current leaf values; so does the value an effect
\* stores when the flush has run it.
C1_GlitchFree ==
  /\ (lastOp.op = "read" /\ HasCompute(heap, lastOp.node))
       => (~lastOp.thrown /\ lastOp.ret = Eval(heap, lastOp.node))
  /\ (lastOp.op = "runTop" /\ heap.state[lastOp.node] = STATE_CLEAN)
       => heap.value[lastOp.node] = Eval(heap, lastOp.node)

\* a read of B that found B in CHECK, re-ran only A, and served B's cache
C1_Witness ==
  /\ lastOp.op = "read" /\ lastOp.node = B
  /\ heap.log = <<A>>
  /\ lastOp.ret = 1

\* C2 (minimal recomputation): the function of a cell is invoked only if
\* the cell was never evaluated, or one of its recorded sources has since
\* received a value its equals rejected; no invocation is unjustified.
C2_MinimalRecompute == heap.unjustified = {}

\* the equals functions as the user wrote them
UserEquals(mode, prev, next) ==
  CASE mode = "id" -> prev = next
    [] mode = "succ" -> prev + 1 = next
    [] OTHER -> FALSE

\* C3 (equality skip): a top-level write(v) for which equals(current, v) is
\* true changes no value, no cell state and no part of the effect queue,
\* and the next read returns the previous value; otherwise (equals rejected
\* v, or equals is false) v is stored and every observer is marked DIRTY.
C3_EqualitySkip ==
  [][lastOp'.op = "write" =>
       LET s == lastOp'.node
           v == lastOp'.ret
       IN IF heap.eq[s] # "false" /\ UserEquals(heap.eq[s], heap.value[s], v)
          THEN /\ heap'.value = heap.value
               /\ heap'.state = heap.state
               /\ heap'.effects = heap.effects
               /\ heap'.scheduledEffects = heap.scheduledEffects
               /\ heap'.microtask = heap.microtask
               /\ read(heap', s).ret = heap.value[s]
          ELSE /\ heap'.value[s] = v
               /\ \A i \in 1..Len(heap.observers[s]) :
                    heap'.state[heap.observers[s][i]] >= STATE_DIRTY]_vars

\* x has equals (prev, next) => prev + 1 === next and observers that are
\* CLEAN; a write of another value has just been skipped
C3_Witness ==
  /\ lastOp.op = "write" /\ lastOp.node = X
  /\ heap.eq[X] = "succ"
  /\ heap.value[X] # lastOp.ret
  /\ Len(heap.observers[X]) = 2
  /\ \A i \in 1..2 : heap.state[heap.observers[X][i]] = STATE_CLEAN

\* ----------------------------------------------------- effect properties
Live(e) == heap.state[e] # STATE_DISPOSED
InQueue(e) == \E i \in 1..Len(heap.effects) : heap.effects[i] = e
IsEffect(e) == heap.kind[e] = "effect"

\* a flush has just ended: runEffects returned, or left by an exception
FlushDone ==
  /\ pc = "idle"
  /\ lastOp.op \in {"flushed", "flushThrew", "flushSync", "microtask"}

\* position of the first occurrence of e in seq
Pos(seq, e) == CHOOSE i \in 1..Len(seq) : seq[i] = e /\ \A k \in 1..(i - 1) : seq[k] # e
Occurs(seq, e) == \E i \in 1..Len(seq) : seq[i] = e

\* C4 (effect liveness): after a top-level write, every live effect that a
\* changing write has reached through its recorded sources is in the queue
\* and a flush is scheduled; when the next flush has ended, the function of
\* every such effect has been invoked again.
C4_EffectLiveness ==
  /\ lastOp.op = "write" =>
       \A e \in heap.owedWrite :
         Live(e) => InQueue(e) /\ heap.scheduledEffects /\ heap.microtask
  /\ FlushDone => \A e \in heap.owedWrite : ~Live(e)

\* C5 (once per flush): with no compute writing a cell, no effect's
\* function is invoked twice in one execution of runEffects.
C5_OncePerFlush ==
  \A i, j \in 1..Len(history.ran) :
    (i # j /\ IsEffect(history.ran[i])) => history.ran[i] # history.ran[j]

C7_ReentrantRun ==
  lastOp.op = "flushed" => \A e \in heap.owedFlush : ~Live(e)

\* an observer of z ran, then the writer of z ran and changed z, and the
\* observer ran again in the same flush
C7_Witness ==
  /\ lastOp.op = "flushed"
  /\ Len(history.ran) = 3
  /\ history.ran[1] = history.ran[3]
  /\ heap.fn[history.ran[1]] = "obsZ"
  /\ heap.fn[history.ran[2]] = "wrYZ"

Unrelated(a, b) == a # b /\ heap.creator[a] # b /\ heap.creator[b] # a

\* C8 (queue order), as claimed: two effects with no ancestor relation that
\* were both enqueued before the flush run in the order of their first
\* notification.
C8_QueueOrder ==
  \A a, b \in Nodes :
    ( /\ Occurs(history.firstNotified, a) /\ Occurs(history.firstNotified, b)
      /\ Occurs(history.ran, a) /\ Occurs(history.ran, b)
      /\ Unrelated(a, b)
      /\ Pos(history.firstNotified, a) < Pos(history.firstNotified, b) )
    => Pos(history.ran, a) < Pos(history.ran, b)

\* where the flush reaches a: at the entry of a itself, or at the entry of
\* a child of a that was enqueued ahead of it
ReachedAt(a) ==
  LET es == {i \in 1..Len(history.firstNotified) :
               \/ history.firstNotified[i] = a
               \/ heap.creator[history.firstNotified[i]] = a}
  IN CHOOSE i \in es : \A k \in es : i <= k

\* C8 (queue order), amended: the flush takes the queue entries in the order
\* of first notification, and an entry runs the non-CLEAN ancestors of its
\* effect first; so two unrelated effects enqueued before the flush run in
\* the order in which the flush reaches them, each at its own entry or at
\* the earlier entry of one of its children.
C8_QueueOrderAmended ==
  \A a, b \in Nodes :
    ( /\ Occurs(history.firstNotified, a) /\ Occurs(history.firstNotified, b)
      /\ Occurs(history.ran, a) /\ Occurs(history.ran, b)
      /\ Unrelated(a, b)
      /\ ReachedAt(a) < ReachedAt(b) )
    => Pos(history.ran, a) < Pos(history.ran, b)

\* an observer of x was notified before an unrelated parent effect, and the
\* parent ran first because its child was notified before both
C8_Witness ==
  /\ pc = "flush"
  /\ \E a, b \in Nodes :
       /\ Occurs(history.firstNotified, a) /\ Occurs(history.firstNotified, b)
       /\ Occurs(history.ran, a) /\ Occurs(history.ran, b)
       /\ Unrelated(a, b)
       /\ Pos(history.firstNotified, a) < Pos(history.firstNotified, b)
       /\ ReachedAt(b) < ReachedAt(a)
       /\ Pos(history.ran, b) < Pos(history.ran, a)

\* C9 (run on creation): when createEffect(fn) returns, fn has been invoked
\* exactly once.
C9_RunsOnCreate ==
  lastOp.op = "createEffect" => heap.log = <<lastOp.node>>

\* C10 (disposal): no call invokes the function of a cell made under an
\* owner whose dispose handle has been called, by the script or by a
\* function in an earlier call.
C10_NoRunAfterDispose ==
  \A i \in 1..Len(heap.log) : heap.log[i] \notin history.dead

C12_ReverseOrder ==
  \A i, j \in 1..Len(heap.called) :
    (i < j /\ heap.called[i].owner = heap.called[j].owner)
      => heap.called[i].k > heap.called[j].k

Pending(h, c) == h.promise[c] # NULL /\ ~h.settled[h.promise[c]]

\* n, or a cell n has read (its recorded value sources, transitively),
\* satisfies P
RECURSIVE Upstream(_, _)
Upstream(h, n) ==
  {n} \cup UNION {Upstream(h, h.sources[n][i]) :
                    i \in {k \in 1..Len(h.sources[n]) : h.sources[n][k] <= MaxNodes}}

\* C17 (loading reaches every descendant): while a cell holds a promise that
\* has not settled, loading() returns true on the cell and on every cell
\* that has read it, directly or through other cells.
C17_LoadingReaches ==
  (lastOp.op = "loading" /\ ~lastOp.thrown
     /\ \E c \in Upstream(heap, lastOp.node) : Pending(heap, c))
    => lastOp.ret = 1

\* C18 (loading ends with resolution): when the promise a cell received last
\* has resolved, and so has that of every cell it has read, loading() on the
\* cell returns false.
C18_LoadingEnds ==
  (lastOp.op = "loading" /\ ~lastOp.thrown
     /\ \A c \in Upstream(heap, lastOp.node) : heap.future[c] \in {"none", "resolved"})
    => lastOp.ret = 0

\* the computations that have the LoadingState of c as a source
LoadingObservers(h, c) ==
  {h.observers[LoadingState(c)][i] : i \in 1..Len(h.observers[LoadingState(c)])}

\* o has been told to run again, or has run again already
Rerun(h, o) == h.state[o] = STATE_DIRTY \/ Occurs(h.log, o)

\* the step from h to g makes o DIRTY, or runs o again
NewlyRerun(h, g, o) ==
  (g.state[o] = STATE_DIRTY /\ h.state[o] # STATE_DIRTY) \/ Occurs(g.log, o)

\* C19 (loading channel notification): in every step in which IS_LOADING(c)
\* changes for a live cell c that has its LoadingState, every observer of
\* that LoadingState is notified DIRTY (or has run again in the step).
C19_LoadingNotified ==
  [][\A c \in Nodes :
       ( /\ heap.hasLoading[c]
         /\ heap'.state[c] # STATE_DISPOSED
         /\ IsLoading(heap, c) # IsLoading(heap', c) )
       => \A o \in LoadingObservers(heap, c) :
            heap'.state[o] = STATE_DISPOSED \/ Rerun(heap', o)]_vars

\* C20 (channel independence): a step that changes the value of a cell c
\* that is not loading before and after leaves alone a computation that
\* read only c.loading(); a step that changes IS_LOADING(c) and not the
\* value of c leaves alone a computation that read only the value of c.
C20_ChannelIndependence ==
  [][\A c \in Nodes :
       /\ ( /\ heap'.value[c] # heap.value[c]
            /\ ~IsLoading(heap, c) /\ ~IsLoading(heap', c) )
          => \A o \in LoadingObservers(heap, c) :
               heap.sources[o] = <<LoadingState(c)>> =>
                 ~NewlyRerun(heap, heap', o)
       /\ ( /\ heap'.value[c] = heap.value[c]
            /\ IsLoading(heap, c) # IsLoading(heap', c) )
          => \A i \in 1..Len(heap.observers[c]) :
               heap.sources[heap.observers[c][i]] = <<c>> =>
                 ~NewlyRerun(heap, heap', heap.observers[c][i])]_vars

\* ------------------------------------------------------ disposed cells
\* C14 (every read of a disposed cell raises): read(), wait(), loading() and
\* error() on a cell made under an owner that has been disposed throw, for
\* leaf cells and computed cells alike, and such a cell has no sources and
\* no observers.
C14_DisposedReadRaises ==
  /\ (lastOp.op \in {"read", "wait", "loading", "error"} /\ lastOp.node \in history.dead)
       => lastOp.thrown
  /\ \A c \in history.dead \cap program.cells :
       heap.sources[c] = <<>> /\ heap.observers[c] = <<>>

\* the cells whose callback a step that settles p, or delivers registration
\* i, calls
Delivered(h, op) ==
  IF op.op = "settle" THEN {h.thens[i].cell : i \in {k \in 1..Len(h.thens) : h.thens[k].p = op.node}}
  ELSE IF op.op = "deliver" THEN {op.node}
  ELSE {}

\* C16 (future of a disposed cell is ignored): a step in which a promise
\* settles whose callbacks all belong to cells that are DISPOSED changes no
\* value, flag or state, and enqueues no effect.
C16_DisposedFutureIgnored ==
  [][( /\ Delivered(heap, lastOp') # {}
       /\ \A c \in Delivered(heap, lastOp') : heap.state[c] = STATE_DISPOSED )
     => /\ heap'.value = heap.value
        /\ heap'.state = heap.state
        /\ heap'.async = heap.async
        /\ heap'.waiting = heap.waiting
        /\ heap'.error = heap.error
        /\ heap'.effects = heap.effects]_vars

\* ------------------------------------------------------- stale promises
\* the promise whose callbacks a step calls
DeliveredPromise(op) == IF op.op = "settle" THEN op.node ELSE op.ret

\* what a cell shows of itself and what the engine keeps about it
SameCells(h, g) ==
  /\ g.value = h.value
  /\ g.state = h.state
  /\ g.async = h.async
  /\ g.waiting = h.waiting
  /\ g.error = h.error
  /\ g.promise = h.promise
  /\ g.sources = h.sources
  /\ g.observers = h.observers
  /\ g.effects = h.effects

Waiters(h) == {c \in Nodes : h.kind[c] # "none" /\ h.fn[c] \in {"waitX", "waitB"}}
Awaited(h, c) == Fns[h.fn[c]].a

\* how often e occurs in seq
Count(seq, e) == Cardinality({i \in 1..Len(seq) : seq[i] = e})

\* C21 (wait): a function that calls s.wait() while s is loading stops at
\* that call, and its cell keeps its value and is loading; once the promise
\* s received last has resolved, to any value, the next read of a cell whose
\* function had stopped at the wait() runs the function past the wait()
\* exactly once.
C21_Wait ==
  [][\A c \in Waiters(heap) :
       /\ (Occurs(heap'.log, c) /\ IsLoading(heap', Awaited(heap, c)))
            => /\ ~Occurs(heap'.past, c)
               /\ heap'.value[c] = heap.value[c]
               /\ IsLoading(heap', c)
       /\ ( /\ c \in heap.aborted
            /\ heap.future[Awaited(heap, c)] = "resolved"
            /\ heap'.future[Awaited(heap, c)] = "resolved"
            /\ lastOp'.op = "read" /\ lastOp'.node = c )
            => Count(heap'.past, c) = 1]_vars

\* --------------------------------------------------------------- errors
\* the function of c, evaluated from scratch on the current leaf values,
\* throws (thrX throws on BadVal; copyB reads A without catching)
Throws(h, c) ==
  /\ h.kind[c] = "memo"
  /\ h.fn[c] \in {"thrX", "copyB"}
  /\ h.value[X] = BadVal

\* C22 (latched compute error): while the function of a computed cell, or of
\* a cell it reads without catching, throws on the current source values,
\* read() of the cell throws that payload and the cell holds it with the
\* ERROR bit set, and error() returns true without throwing.
C22_LatchedError ==
  /\ (lastOp.op = "read" /\ Throws(heap, lastOp.node))
       => /\ lastOp.thrown /\ lastOp.ret = TestError
          /\ heap.error[lastOp.node] /\ heap.value[lastOp.node] = TestError
  /\ (lastOp.op = "error" /\ Throws(heap, lastOp.node))
       => ~lastOp.thrown /\ lastOp.ret = 1

\* C23 (error recovery): when the sources let the function of a cell
\* succeed again, read() of the cell and of a memo that reads it returns the
\* recomputed value with ERROR clear, and when a flush has ended every live
\* effect that has run and reads the cell holds the recomputed value.
C23_ErrorRecovery ==
  /\ (lastOp.op = "read" /\ lastOp.node \in {A, B} /\ heap.value[X] # BadVal)
       => /\ ~lastOp.thrown /\ lastOp.ret = heap.value[X]
          /\ ~heap.error[lastOp.node]
  /\ (FlushDone /\ heap.value[X] # BadVal)
       => \A e \in heap.evaluated :
            (IsEffect(e) /\ Live(e) /\ heap.fn[e] = "obsA")
              => heap.value[e] = heap.value[X]

\* C24 (error channel): when a flush has ended, every live effect whose last
\* run read m.error() has run again if the ERROR bit of m has changed since;
\* and no such effect is run again while the bit is what it read last.
C24_ErrorChannel ==
  /\ FlushDone => \A e \in heap.owedErr : ~Live(e)
  /\ heap.errUnjust = {}

\* The nearest owner from n upwards on which catchError installed a handler
RECURSIVE NearestHandler(_, _)
NearestHandler(h, n) ==
  IF n = NULL THEN NULL
  ELSE IF h.kind[n] = "owner" /\ h.fn[n] \in {"catch", "rethrow", "translate"} THEN n
  ELSE NearestHandler(h, h.parent[n])

\* The effects whose function threw in the step just made
Raisers(h) ==
  {e \in Nodes : /\ \E i \in 1..Len(h.log) : h.log[i] = e
                 /\ h.kind[e] = "effect"
                 /\ h.fn[e] = "thrX" /\ h.value[X] = BadVal}

\* The first handler the error raised in n was delivered to, NULL if none
FirstHandler(h, n) ==
  IF \E i \in 1..Len(h.handled) : h.handled[i].from = n
  THEN h.handled[CHOOSE i \in 1..Len(h.handled) :
                   /\ h.handled[i].from = n
                   /\ \A j \in 1..(i - 1) : h.handled[j].from # n].by
  ELSE NULL

\* C25 (effect errors go to the owner chain): an effect never holds an error;
\* the exception its function throws is delivered first to the nearest
\* handler on its owner parent links, and with no handler there it leaves
\* the flush.
C25_EffectErrorsToOwners ==
  /\ \A e \in Nodes : heap.kind[e] = "effect" => ~heap.error[e] /\ heap.value[e] # TestError
  /\ lastOp.op \in {"runTop", "flushThrew"} =>
       \A e \in Raisers(heap) :
          /\ FirstHandler(heap, e) = NearestHandler(heap, e)
          /\ NearestHandler(heap, e) = NULL =>
                lastOp.op = "flushThrew" /\ lastOp.ret = TestError

C25_Witness ==
  /\ lastOp.op = "runTop"
  /\ \E e \in Raisers(heap) :
        /\ NearestHandler(heap, e) # NULL
        /\ FirstHandler(heap, e) = NearestHandler(heap, e)

\* The handlers on the owner parent links of n, from n upwards
RECURSIVE HandlersAbove(_, _)
HandlersAbove(h, n) ==
  IF n = NULL THEN {}
  ELSE (IF h.kind[n] = "owner" /\ h.fn[n] \in {"catch", "rethrow", "translate"} THEN {n} ELSE {})
       \cup HandlersAbove(h, h.parent[n])

\* C26 (throwing handler): when the handler an error was delivered to throws,
\* the error it threw is delivered later to the nearest handler above the
\* owner of that handler, and with no handler there it is rethrown at the top
\* level; no error is delivered to a handler that is not on the owner parent
\* links of the node it was raised in.
C26_ThrowingHandler ==
  lastOp.op \in {"runTop", "flushThrew"} =>
    \A i \in 1..Len(heap.handled) :
       /\ heap.handled[i].by \in HandlersAbove(heap, heap.handled[i].from)
       /\ HandlerThrows(heap, heap.handled[i].by, heap.handled[i].error) =>
             IF NearestHandler(heap, heap.parent[heap.handled[i].by]) = NULL
             THEN /\ lastOp.op = "flushThrew"
                  /\ lastOp.ret = HandlerError(heap, heap.handled[i].by, heap.handled[i].error)
             ELSE \E j \in (i + 1)..Len(heap.handled) :
                     /\ heap.handled[j].by =
                          NearestHandler(heap, heap.parent[heap.handled[i].by])
                     /\ heap.handled[j].error =
                          HandlerError(heap, heap.handled[i].by, heap.handled[i].error)

\* The cells whose function reads x inside untrack and has run
Peekers(h) ==
  {n \in h.evaluated : HasCompute(h, n) /\ Fns[h.fn[n]].op = "untr"}

\* C27 (untrack): a cell that reads x only inside untrack does not have x
\* among its sources, is not made WAITING by a loading x, and is neither
\* marked nor queued by a write to x or by the settling of the promise of x;
\* an effect made inside untrack is a child of the cell whose function made it.
C27_Untrack ==
  [][/\ \A n \in Peekers(heap') :
          /\ \A i \in 1..Len(heap'.sources[n]) : Origin(heap'.sources[n][i]) # X
          /\ \A i \in 1..Len(heap'.observers[X]) : heap'.observers[X][i] # n
          /\ ~heap'.waiting[n]
     /\ (lastOp'.op \in {"writeFuture", "settle", "deliver"}
           \/ (lastOp'.op = "write" /\ lastOp'.node = X))
          => \A n \in Peekers(heap) :
                /\ heap'.state[n] = heap.state[n]
                /\ heap'.effects = heap.effects
     /\ \A m \in Nodes :
          (heap'.kind[m] = "effect" /\ heap'.fn[m] = "obsY"
             /\ heap'.state[m] # STATE_DISPOSED)
            => /\ heap'.parent[m] # NULL
               /\ heap'.fn[heap'.parent[m]] = "nestU"]_vars

\* The cells reachable from the cells of S through observers links
RECURSIVE Downstream(_, _)
Downstream(h, S) ==
  IF \A n \in S : \A i \in 1..Len(h.observers[n]) : h.observers[n][i] \in S
  THEN S
  ELSE Downstream(h, S \cup {o \in Nodes : \E n \in S :
                                \E i \in 1..Len(h.observers[n]) : h.observers[n][i] = o})

\* C28 (write marking): when write(v) has stored a value that differs from
\* the old one, every direct observer of the written cell is DIRTY (or
\* disposed), every cell reachable from it through observers links is at
\* least CHECK, and the write has invoked no compute.
C28_WriteMarking ==
  [][(lastOp'.op = "write" /\ heap'.value[lastOp'.node] # heap.value[lastOp'.node])
       => /\ \A i \in 1..Len(heap'.observers[lastOp'.node]) :
                heap'.state[heap'.observers[lastOp'.node][i]] >= STATE_DIRTY
          /\ \A n \in Downstream(heap', {lastOp'.node}) \ {lastOp'.node} :
                heap'.state[n] >= STATE_CHECK
          /\ heap'.log = <<>>]_vars

\* C29 (disposal symmetry): a disposed cell is in no observers list of a live
\* cell or of its loading or error node, and neither the disposed cell nor
\* its loading or error node is in the sources list of a live cell.
C29_DisposalSymmetry ==
  \A d \in Nodes : heap.state[d] = STATE_DISPOSED =>
    \A o \in Nodes : (IsCell(heap, o) /\ heap.state[o] # STATE_DISPOSED) =>
       /\ \A i \in 1..Len(heap.sources[o]) : Origin(heap.sources[o][i]) # d
       /\ \A src \in {o, LoadingState(o), ErrorState(o)} :
             \A i \in 1..Len(heap.observers[src]) : heap.observers[src][i] # d

\* C30 (Autorun pause protocol): a paused Autorun does not run its function,
\* however often it is invalidated; unpause() runs it exactly once if it was
\* invalidated while paused and not at all otherwise, also when it was not
\* paused; destroy() of a paused Autorun calls its finalizer exactly once.
C30_PauseProtocol ==
  [][\A n \in heap.autoruns :
       /\ (n \in heap.paused /\ n \in heap'.paused) => Count(heap'.log, n) = 0
       /\ (lastOp'.op = "unpause" /\ lastOp'.node = n) =>
             Count(heap'.log, n) = IF n \in heap.invalidated THEN 1 ELSE 0
       /\ (lastOp'.op = "destroy" /\ lastOp'.node = n /\ n \in heap.paused) =>
             Count(heap'.called, Callback(n, 0)) = 1]_vars

\* C31 (Autorun ancestor pause): while an Autorun above it in the owner tree
\* is paused, an Autorun does not run its function when it is invalidated;
\* when the last paused Autorun above it is unpaused, an Autorun that was
\* invalidated meanwhile and is not paused itself runs exactly once.
C31_AncestorPause ==
  [][\A d \in heap.autoruns :
       /\ (lastOp'.op = "invalidate" /\ lastOp'.node = d /\ PausedAbove(heap, d) # {})
             => Count(heap'.log, d) = 0
       /\ ( /\ lastOp'.op = "unpause"
            /\ PausedAbove(heap, d) = {lastOp'.node}
            /\ d \in heap.invalidated /\ d \notin heap.paused
            /\ heap.state[lastOp'.node] = STATE_CLEAN )
             => Count(heap'.log, d) = 1]_vars

\* C32 (sources and observers agree): between calls, for a live cell y and a
\* cell, loading node or error node x of a live cell, x occurs in the sources
\* of y as often as y occurs in the observers of x.
C32_SourcesObservers ==
  \A y \in Nodes : \A x \in Sources :
    ( /\ IsCell(heap, y) /\ heap.state[y] # STATE_DISPOSED
      /\ IsCell(heap, Origin(x)) /\ heap.state[Origin(x)] # STATE_DISPOSED )
      => Count(heap.sources[y], x) = Count(heap.observers[x], y)

\* C33 (update restores): update leaves the scratch variables newSources,
\* newSourcesIndex and newLoadingState as it found them (between calls: null,
\* 0, false) and leaves its cell CLEAN, also when the compute throws; so an
\* effect whose function calls only A.error() has the error node of A as its
\* only source, also when the nested run of A threw.
C33_UpdateRestores ==
  /\ heap.newSources = <<>> /\ heap.newSourcesIndex = 0 /\ ~heap.newLoadingState
  /\ (lastOp.op = "read" /\ HasCompute(heap, lastOp.node))
        => heap.state[lastOp.node] = STATE_CLEAN
  /\ \A e \in heap.evaluated :
        (IsEffect(e) /\ Live(e) /\ heap.fn[e] = "errA")
          => heap.sources[e] = <<ErrorState(A)>>

\* The sources the function of c reads, in order, on the leaf values of h
ReadSeq(h, c) ==
  CASE Fns[h.fn[c]].op = "sum" -> <<Fns[h.fn[c]].a, Fns[h.fn[c]].b>>
    [] Fns[h.fn[c]].op = "cond" ->
         <<Fns[h.fn[c]].c, IF h.value[Fns[h.fn[c]].c] # 0 THEN Fns[h.fn[c]].a
                           ELSE Fns[h.fn[c]].b>>
    [] Fns[h.fn[c]].op \in {"copy", "thr"} -> <<Fns[h.fn[c]].a>>
    [] Fns[h.fn[c]].op = "err" -> <<ErrorState(Fns[h.fn[c]].a)>>
    [] OTHER -> <<>>

\* C34 (stable dependencies): when the function of a cell, run once in a
\* call, reads the sequence of sources the cell already has (a source read
\* twice included), no newSources array is made for it, its sources are as
\* they were and it occurs in the observers of every source as often as
\* before; when no other function ran in the call, the sources of every cell
\* and the observers of every source are as they were.
C34_StableDependencies ==
  [][\A c \in Nodes :
       ( /\ HasCompute(heap, c)
         /\ Count(heap'.log, c) = 1
         /\ heap.sources[c] # <<>>
         /\ heap.sources[c] = ReadSeq(heap', c) )
       => /\ c \notin heap'.grown
          /\ heap'.sources[c] = heap.sources[c]
          /\ \A x \in Sources :
                Count(heap'.observers[x], c) = Count(heap.observers[x], c)
          /\ heap'.log = <<c>> =>
                heap'.sources = heap.sources /\ heap'.observers = heap.observers]_vars

\* C35 (marking invariant): between calls, every observer of a live cell
\* that is CHECK or DIRTY, and every observer of its loading node and of its
\* error node, is at least CHECK.
C35_Marking ==
  \A c \in Nodes :
    (IsCell(heap, c) /\ heap.state[c] \in {STATE_CHECK, STATE_DIRTY}) =>
      \A s \in {c, LoadingState(c), ErrorState(c)} :
        \A i \in 1..Len(heap.observers[s]) :
          heap.state[heap.observers[s][i]] >= STATE_CHECK

\* the cell holds a promise that has not settled, or whose callback for the
\* cell has yet to run
Awaiting(h, c) ==
  /\ h.promise[c] # NULL
  /\ \/ ~h.settled[h.promise[c]]
     \/ \E i \in 1..Len(h.thens) : h.thens[i].cell = c /\ h.thens[i].p = h.promise[c]

\* C36 (no stuck loading): a live cell has its ASYNC bit set exactly while it
\* holds a promise that has not settled (or whose callback has yet to run).
C36_NoStuckLoading ==
  \A c \in Nodes :
    (IsCell(heap, c) /\ heap.state[c] # STATE_DISPOSED)
      => (heap.async[c] <=> Awaiting(heap, c))

\* C37 (no lost effect): while no flush is running, every live effect that
\* is CHECK or DIRTY is in the queue of pending effects.
C37_NoLostEffect ==
  pc = "idle" =>
    \A e \in Nodes :
      (IsEffect(e) /\ heap.state[e] \in {STATE_CHECK, STATE_DIRTY}) => InQueue(e)

\* C38 (DISPOSED is absorbing): a cell that has been disposed is DISPOSED and
\* is in no observers list, also when it was disposed while its own function
\* was running.
C38_DisposedAbsorbing ==
  \A n \in heap.gone :
    /\ heap.state[n] = STATE_DISPOSED
    /\ \A x \in Sources : Count(heap.observers[x], n) = 0

\* C39 (a handler is called once per error): among the handler calls made for
\* the error raised in one node, those that follow a handler's throw
\* included, no handler is called twice.
C39_HandlerOnce ==
  lastOp.op \in {"runTop", "flushThrew"} =>
    \A i \in 1..Len(heap.handled) : \A j \in (i + 1)..Len(heap.handled) :
       heap.handled[i].from = heap.handled[j].from
         => heap.handled[i].by # heap.handled[j].by

\* Memos whose WAITING flag both validation paths can set: B reads only
\* A.error(), A.loading() or the value of A, and A reads x and y
InitPaths ==
  InitScript({X, Y, A, B}, {"obsXY"}, {"errA", "loadA", "copyB"}, {"none"}, {}, 0,
             {}, {1}, {X})

NextPaths ==
  \/ Write
  \/ WriteFuture
  \/ Settle
  \/ Read

SpecPaths == InitPaths /\ [][NextPaths]_vars

\* C40 (WAITING does not depend on the validation path): when a call leaves
\* a memo CLEAN that was CHECK before it and whose compute the call did not
\* run, the memo's WAITING flag is the one a run of its compute would set
\* with its sources in the states they are in.
C40_PathIndependent ==
  [][\A c \in {A, B} :
       (/\ heap.state[c] = STATE_CHECK
        /\ heap'.state[c] = STATE_CLEAN
        /\ Count(heap'.log, c) = 0)
         => update(heap', c).h.waiting[c] = heap'.waiting[c]]_vars
====
